---------------------------- MODULE Spec2Model ----------------------------
(***************************************************************************)
(* A model of the ping-pong league server (src/server/index.ts): the       *)
(* season partitioner, the Elo rating engine, the standings composer and   *)
(* the champion determination, together with the match and player routes  *)
(* that feed them, and the friend and group routes of the authenticated    *)
(* server.                                                                 *)
(*                                                                         *)
(* Time is a natural number of ticks; a calendar month is TicksPerMonth    *)
(* consecutive ticks, so month m is the window                             *)
(* [m * TicksPerMonth, (m + 1) * TicksPerMonth - 1].  A tick stands for    *)
(* one millisecond of the Date values of the code: there is no instant     *)
(* between the last tick of a month and the first tick of the next.        *)
(*                                                                         *)
(* A database table is a sequence of rows in the order the database hands  *)
(* them out when no ORDER BY is given.  A nullable column holds 0 for NULL *)
(* (ids start at 1).                                                       *)
(***************************************************************************)
EXTENDS Integers, Sequences, FiniteSets, TLC

VARIABLES
    now,          \* the server clock (new Date())
    seasons,      \* the Season table: row i has id i (SERIAL, never deleted)
    matches,      \* the Match table
    nextMatchId,  \* the Match id sequence
    lastOp,       \* the route that ran last
    updated,      \* season ids for which the last route issued prisma.season.update
    returned,     \* <<date, season id>> of every finished getOrCreateSeasonForDate call
    pending,      \* per request: the date of a getOrCreateSeasonForDate call that
                  \* found no season and has not yet created one (-1: none)
    request,      \* the body of the last match request
    response,     \* the HTTP status that request was answered with
    input,        \* rating engine: the matches of one season handed to the functions
    standingsOut, \* rating engine: what calculateSeasonStandings returned
    deltasOut,    \* rating engine: what computeEloDeltas returned
    statsOut,     \* what the player statistics returned
    players,      \* the Player table: the ids of its rows
    nextPlayerId, \* the Player id sequence
    friendships,  \* the Friendship table
    nextFriendshipId, \* the Friendship id sequence
    groups,       \* the Group table: row i has id i (never deleted)
    members,      \* the GroupMember table, unique on (groupId, userId)
    invites,      \* the GroupInvite table, unique on (groupId, inviteeId)
    nextInviteId  \* the GroupInvite id sequence

vars == <<now, seasons, matches, nextMatchId, lastOp, updated, returned, pending,
          request, response, input, standingsOut, deltasOut, statsOut,
          players, nextPlayerId, friendships, nextFriendshipId, groups, members,
          invites, nextInviteId>>

requestVars == <<request, response>>
dbVars == <<now, seasons, matches, nextMatchId, lastOp, updated, returned, pending,
            requestVars>>
engineVars == <<input, standingsOut, deltasOut, statsOut>>

accountVars == <<players, nextPlayerId, friendships, nextFriendshipId, groups,
                 members, invites, nextInviteId>>

-----------------------------------------------------------------------------
(* Bounds of the model *)

MaxLen == 2          \* matches in a list handed to the rating engine
MaxTime == 3         \* last tick of the clock and of playedAt
MaxMatches == 2      \* matches ever created through POST /api/matches
MaxSeasons == 3      \* rows of the Season table under concurrent creation
NumRequests == 2     \* requests in flight at once

TicksPerMonth == 2   \* ticks in a calendar month

Players == 1..4
PlayerPairs == {pq \in Players \X Players : pq[1] # pq[2]}
\* the scores a request may carry: valid results of a game
Scores == {<<11, 5>>, <<5, 11>>, <<11, 9>>}
Times == 0..MaxTime

-----------------------------------------------------------------------------
(* The Elo step *)

BASE_RATING == 1000
K == 32

\* Thresholds[k] is the largest integer d with
\*   K * (1 / (1 + 10 ^ (d / 400))) >= k - 1/2,
\* that is floor(400 * log10((K + 1/2 - k) / (k - 1/2))).  No integer d meets a
\* bound exactly (the only rational value of 10 ^ (d / 400) among them is 1, at
\* d = 0, where K * 1/2 = 16 is whole), so Math.round never sees a half.
Thresholds ==
    <<719, 523, 428, 364, 314, 273, 237, 205, 176, 149, 124, 100, 77, 54, 32, 10,
      -11, -33, -55, -78, -101, -125, -150, -177, -206, -238, -274, -315, -365,
      -429, -524, -720>>

\* the largest k in lo..hi with d <= Thresholds[k] (0 when there is none),
\* given that every k <= lo qualifies and no k > hi does
RECURSIVE LargestBelow(_, _, _)
LargestBelow(d, lo, hi) ==
    IF lo = hi THEN lo
    ELSE LET mid == (lo + hi + 1) \div 2
         IN  IF d <= Thresholds[mid] THEN LargestBelow(d, mid, hi)
             ELSE LargestBelow(d, lo, mid - 1)

\* RoundKExpected with the result doubled, as if K were 64
RoundKExpectedDoubled(d) == 2 * LargestBelow(d, 0, K)

\* Math.round(K * E) for E = 1 / (1 + 10 ^ (d / 400)): the number of k in 1..K
\* with K * E >= k - 1/2
RoundKExpected(d) == LargestBelow(d, 0, K)

\* RoundedDelta with the actual scores of the two sides exchanged
RoundedDeltaSwapped(self, opp, won) ==
    IF won THEN 0 - RoundKExpected(opp - self)
    ELSE RoundKExpected(self - opp)

\* RoundedDelta with the loser's expected score taken from the winner's side
\* of the rating difference
RoundedDeltaOneSided(self, opp, won) ==
    IF won THEN RoundKExpected(self - opp)
    ELSE 0 - RoundKExpected(self - opp)

\* Math.round(K * (S - E)) for the player rated self against opp, where
\* E = 1 / (1 + 10 ^ ((opp - self) / 400)) is the player's expected score:
\* S = 1 gives round(K * (1 - E)), and 1 - E is the opponent's expected score;
\* S = 0 gives round(-(K * E)).
RoundedDelta(self, opp, won) ==
    IF won THEN RoundKExpected(self - opp)
    ELSE 0 - RoundKExpected(opp - self)

-----------------------------------------------------------------------------
(* Sorting, as Array.prototype.sort does it: stable *)

\* s is sorted by playedAt; m goes after every element that is not later
RECURSIVE InsertByPlayedAt(_, _)
InsertByPlayedAt(m, s) ==
    IF s = <<>> THEN <<m>>
    ELSE IF Head(s).playedAt - m.playedAt <= 0
         THEN <<Head(s)>> \o InsertByPlayedAt(m, Tail(s))
         ELSE <<m>> \o s

\* SortByPlayedAt without the sort: the list as it was handed over
Unsorted(ms) == ms

\* [...matches].sort((a, b) => a.playedAt.getTime() - b.playedAt.getTime())
RECURSIVE SortByPlayedAt(_)
SortByPlayedAt(ms) ==
    IF ms = <<>> THEN <<>>
    ELSE InsertByPlayedAt(ms[Len(ms)], SortByPlayedAt(SubSeq(ms, 1, Len(ms) - 1)))

\* StandingCompare without its tie-breaks
StandingCompareRatingOnly(a, b) == b.rating - a.rating

\* the comparator of standings.sort: negative when a goes before b
StandingCompare(a, b) ==
    IF b.rating = a.rating
    THEN IF b.pointDifferential = a.pointDifferential
         THEN b.matches - a.matches
         ELSE b.pointDifferential - a.pointDifferential
    ELSE b.rating - a.rating

RECURSIVE InsertStanding(_, _)
InsertStanding(e, s) ==
    IF s = <<>> THEN <<e>>
    ELSE IF StandingCompare(Head(s), e) <= 0
         THEN <<Head(s)>> \o InsertStanding(e, Tail(s))
         ELSE <<e>> \o s

RECURSIVE SortStandings(_)
SortStandings(es) ==
    IF es = <<>> THEN <<>>
    ELSE InsertStanding(es[Len(es)], SortStandings(SubSeq(es, 1, Len(es) - 1)))

-----------------------------------------------------------------------------
(* calculateSeasonStandings *)

\* the statsMap is a sequence of entries in insertion order
HasEntry(stats, p) == \E i \in 1..Len(stats) : stats[i].player = p

NewEntry(p) ==
    [player |-> p, wins |-> 0, losses |-> 0, matches |-> 0,
     pointsFor |-> 0, pointsAgainst |-> 0, rating |-> BASE_RATING]

\* AddEntry without the statsMap.has test
AddEntryAlways(stats, p) == Append(stats, NewEntry(p))

AddEntry(stats, p) == IF HasEntry(stats, p) THEN stats ELSE Append(stats, NewEntry(p))

\* the first loop: an entry for every player that appears in the matches
RECURSIVE InitialStats(_)
InitialStats(ms) ==
    IF ms = <<>> THEN <<>>
    ELSE LET m == ms[Len(ms)]
             before == InitialStats(SubSeq(ms, 1, Len(ms) - 1))
         IN  AddEntry(AddEntry(before, m.playerOneId), m.playerTwoId)

EntryOf(stats, p) == stats[CHOOSE i \in 1..Len(stats) : stats[i].player = p]

\* the body of the second loop with the losses left as they are
ProcessMatchNoLosses(stats, m) ==
    LET oneWon == (m.winnerId = m.playerOneId)
    IN  [i \in 1..Len(stats) |->
            IF stats[i].player = m.playerOneId
            THEN [stats[i] EXCEPT !.matches = @ + 1,
                                  !.pointsFor = @ + m.playerOnePoints,
                                  !.pointsAgainst = @ + m.playerTwoPoints,
                                  !.wins = IF oneWon THEN @ + 1 ELSE @]
            ELSE IF stats[i].player = m.playerTwoId
            THEN [stats[i] EXCEPT !.matches = @ + 1,
                                  !.pointsFor = @ + m.playerTwoPoints,
                                  !.pointsAgainst = @ + m.playerOnePoints,
                                  !.wins = IF oneWon THEN @ ELSE @ + 1]
            ELSE stats[i]]

\* the body of the second loop for one match
ProcessMatch(stats, m) ==
    LET Ra == EntryOf(stats, m.playerOneId).rating
        Rb == EntryOf(stats, m.playerTwoId).rating
        oneWon == (m.winnerId = m.playerOneId)
        One(e) == [e EXCEPT !.matches = @ + 1,
                            !.pointsFor = @ + m.playerOnePoints,
                            !.pointsAgainst = @ + m.playerTwoPoints,
                            !.wins = IF oneWon THEN @ + 1 ELSE @,
                            !.losses = IF oneWon THEN @ ELSE @ + 1,
                            !.rating = Ra + RoundedDelta(Ra, Rb, oneWon)]
        Two(e) == [e EXCEPT !.matches = @ + 1,
                            !.pointsFor = @ + m.playerTwoPoints,
                            !.pointsAgainst = @ + m.playerOnePoints,
                            !.wins = IF oneWon THEN @ ELSE @ + 1,
                            !.losses = IF oneWon THEN @ + 1 ELSE @,
                            !.rating = Rb + RoundedDelta(Rb, Ra, ~oneWon)]
    IN  [i \in 1..Len(stats) |->
            IF stats[i].player = m.playerOneId THEN One(stats[i])
            ELSE IF stats[i].player = m.playerTwoId THEN Two(stats[i])
            ELSE stats[i]]

RECURSIVE ProcessMatches(_, _)
ProcessMatches(stats, sorted) ==
    IF sorted = <<>> THEN stats
    ELSE ProcessMatches(ProcessMatch(stats, Head(sorted)), Tail(sorted))

ToStanding(e) ==
    [player |-> e.player, wins |-> e.wins, losses |-> e.losses,
     matches |-> e.matches, pointsFor |-> e.pointsFor,
     pointsAgainst |-> e.pointsAgainst, rating |-> e.rating,
     pointDifferential |-> e.pointsFor - e.pointsAgainst]

calculateSeasonStandings(ms) ==
    LET stats == ProcessMatches(InitialStats(ms), SortByPlayedAt(ms))
    IN  SortStandings([i \in 1..Len(stats) |-> ToStanding(stats[i])])

-----------------------------------------------------------------------------
(* computeEloDeltas *)

\* m.season ? m.season.id : 0
SeasonKey(m) == m.seasonId

\* SeasonGroup without the grouping: one run over the matches of all seasons
SeasonGroupAll(ms, sid) == ms

SeasonGroup(ms, sid) == SelectSeq(ms, LAMBDA m : SeasonKey(m) = sid)

\* ratingMap after "init ratings"
WithRating(ratingMap, p) ==
    IF p \in DOMAIN ratingMap THEN ratingMap ELSE (p :> BASE_RATING) @@ ratingMap

\* the loop over one season's sorted matches; acc is the deltas map so far
RECURSIVE DeltaRun(_, _, _)
DeltaRun(sorted, ratingMap, acc) ==
    IF sorted = <<>> THEN acc
    ELSE LET m == Head(sorted)
             rm == WithRating(WithRating(ratingMap, m.playerOneId), m.playerTwoId)
             Ra == rm[m.playerOneId]
             Rb == rm[m.playerTwoId]
             oneWon == (m.winnerId = m.playerOneId)
             deltaA == RoundedDelta(Ra, Rb, oneWon)
             deltaB == RoundedDelta(Rb, Ra, ~oneWon)
             applied == (m.playerOneId :> Ra + deltaA) @@
                        (m.playerTwoId :> Rb + deltaB) @@ rm
         IN  DeltaRun(Tail(sorted), applied,
                      (m.id :> [playerOneDelta |-> deltaA, playerTwoDelta |-> deltaB])
                          @@ acc)

SeasonDeltas(seasonMatches) == DeltaRun(SortByPlayedAt(seasonMatches), <<>>, <<>>)

computeEloDeltas(ms) ==
    [id \in {ms[i].id : i \in 1..Len(ms)} |->
        LET m == ms[CHOOSE i \in 1..Len(ms) : ms[i].id = id]
        IN  SeasonDeltas(SeasonGroup(ms, SeasonKey(m)))[id]]

-----------------------------------------------------------------------------
(* Rows *)

\* a Match row as POST and PATCH /api/matches store it: the winner is the side
\* with the higher score
MatchRow(id, pq, sc, t, sid) ==
    [id |-> id, playerOneId |-> pq[1], playerTwoId |-> pq[2],
     playerOnePoints |-> sc[1], playerTwoPoints |-> sc[2],
     winnerId |-> IF sc[1] > sc[2] THEN pq[1] ELSE pq[2],
     playedAt |-> t, seasonId |-> sid]

\* the rearrangements of a list: the orders in which a caller may hand it over
Perms(n) == {f \in [1..n -> 1..n] : \A i, j \in 1..n : f[i] = f[j] => i = j}
Permuted(ms, f) == [i \in 1..Len(ms) |-> ms[f[i]]]

-----------------------------------------------------------------------------
(* The rating engine on its own: the matches of one season, handed to      *)
(* calculateSeasonStandings and to computeEloDeltas in any order.          *)

EngineTimes == 1..MaxLen

\* the pairings of the lists: playerOne is the lower id, and either side may win
EnginePairs == {pq \in PlayerPairs : pq[1] < pq[2]}

PlayersUpTo(ms, i) == UNION {{ms[j][1][1], ms[j][1][2]} : j \in 1..i}

\* the matches of one season, listed by id.  The engine only compares playedAt
\* values and uses player ids as keys, so the lists start at tick 1, each next
\* match is played at the same tick or at the next one, and the players are
\* numbered as they first appear; the callers hand the list over in any order.
EngineInputs ==
    UNION {{ms \in [1..n -> EnginePairs \X Scores \X EngineTimes] :
              /\ n > 0 => ms[1][3] = 1
              /\ \A i \in 1..(n - 1) : ms[i + 1][3] - ms[i][3] \in {0, 1}
              /\ \A i \in 1..n :
                    PlayersUpTo(ms, i) = 1..Cardinality(PlayersUpTo(ms, i))}
           : n \in 0..MaxLen}

NoResult == [done |-> FALSE, value |-> <<>>]

\* the players of the league
LeaguePlayers == 1..3

\* the Player table holds the league's players; no friendship, group or
\* invitation is stored
AccountsIdle ==
    /\ players = LeaguePlayers
    /\ nextPlayerId = 4
    /\ friendships = {}
    /\ nextFriendshipId = 1
    /\ groups = <<>>
    /\ members = {}
    /\ invites = {}
    /\ nextInviteId = 1

DbIdle ==
    /\ now = 0
    /\ seasons = <<>>
    /\ matches = <<>>
    /\ nextMatchId = 1
    /\ lastOp = "none"
    /\ updated = {}
    /\ returned = {}
    /\ pending = [r \in 1..NumRequests |-> -1]
    /\ request = <<>>
    /\ response = 0
    /\ AccountsIdle

EngineIdle ==
    /\ input = <<>>
    /\ standingsOut = NoResult
    /\ deltasOut = NoResult
    /\ statsOut = NoResult

EngineInit ==
    /\ \E shape \in EngineInputs :
          input = [i \in 1..Len(shape) |->
                      MatchRow(i, shape[i][1], shape[i][2], shape[i][3], 1)]
    /\ standingsOut = NoResult
    /\ deltasOut = NoResult
    /\ statsOut = NoResult
    /\ DbIdle

\* GET /api/seasons hands the season's matches to calculateSeasonStandings
CallStandings ==
    /\ ~standingsOut.done
    /\ \E f \in Perms(Len(input)) :
          standingsOut' = [done |-> TRUE,
                           value |-> calculateSeasonStandings(Permuted(input, f))]
    /\ UNCHANGED <<input, deltasOut, statsOut>>
    /\ UNCHANGED <<dbVars, accountVars>>

\* GET /api/matches hands the matches to computeEloDeltas
CallDeltas ==
    /\ ~deltasOut.done
    /\ \E f \in Perms(Len(input)) :
          deltasOut' = [done |-> TRUE,
                        value |-> computeEloDeltas(Permuted(input, f))]
    /\ UNCHANGED <<input, standingsOut, statsOut>>
    /\ UNCHANGED <<dbVars, accountVars>>

EngineNext == CallStandings \/ CallDeltas

SpecElo == EngineInit /\ [][EngineNext]_vars

-----------------------------------------------------------------------------
(* Properties of the rating engine *)

PlayersIn(ms) == UNION {{ms[i].playerOneId, ms[i].playerTwoId} : i \in 1..Len(ms)}

\* the rating a standings list reports for player p
RatingIn(standings, p) ==
    standings[CHOOSE i \in 1..Len(standings) : standings[i].player = p].rating

\* the delta a deltas map reports for player p in match m (0 when p did not play)
DeltaFor(deltas, m, p) ==
    IF p = m.playerOneId THEN deltas[m.id].playerOneDelta
    ELSE IF p = m.playerTwoId THEN deltas[m.id].playerTwoDelta
    ELSE 0

RECURSIVE DeltaSum(_, _, _)
DeltaSum(deltas, ms, p) ==
    IF ms = <<>> THEN 0
    ELSE DeltaFor(deltas, Head(ms), p) + DeltaSum(deltas, Tail(ms), p)

DistinctPlayedAt(ms) ==
    \A i, j \in 1..Len(ms) : ms[i].playedAt = ms[j].playedAt => i = j

LoserOf(m) == IF m.winnerId = m.playerOneId THEN m.playerTwoId ELSE m.playerOneId

\* C1: in a season of exactly one match, calculateSeasonStandings reports 1016
\* for the winner and 984 for the loser, and computeEloDeltas reports +16 and
\* -16, which sum to 0.
C1_SingleMatch ==
    Len(input) = 1 =>
        LET m == input[1] IN
        /\ standingsOut.done =>
              /\ RatingIn(standingsOut.value, m.winnerId) = 1016
              /\ RatingIn(standingsOut.value, LoserOf(m)) = 984
        /\ deltasOut.done =>
              /\ DeltaFor(deltasOut.value, m, m.winnerId) = 16
              /\ DeltaFor(deltasOut.value, m, LoserOf(m)) = -16
              /\ deltasOut.value[m.id].playerOneDelta
                    + deltasOut.value[m.id].playerTwoDelta = 0

C1_Witness ==
    /\ Len(input) = 1
    /\ standingsOut.done
    /\ deltasOut.done
    /\ input[1].winnerId = input[1].playerTwoId

\* the matches of a list in increasing playedAt order (playedAt pairwise distinct)
Ascending(ms) ==
    CHOOSE s \in [1..Len(ms) -> {ms[i] : i \in 1..Len(ms)}] :
        \A i, j \in 1..Len(ms) : i < j => s[i].playedAt < s[j].playedAt

\* the ratings after the Elo step is applied to the matches one after the other
RatingsAfter(run) ==
    LET stats == ProcessMatches(InitialStats(run), run)
    IN  [p \in PlayersIn(run) |-> EntryOf(stats, p).rating]

\* C2: whatever the order of the list handed over, when the playedAt values are
\* pairwise distinct the final ratings and the per-match deltas are those of the
\* run over the matches in increasing playedAt order, each match starting from
\* the ratings the earlier ones left.
C2_ChronologicalRun ==
    DistinctPlayedAt(input) =>
        /\ standingsOut.done =>
              \A p \in PlayersIn(input) :
                  RatingIn(standingsOut.value, p) = RatingsAfter(Ascending(input))[p]
        /\ deltasOut.done =>
              deltasOut.value = DeltaRun(Ascending(input), <<>>, <<>>)

\* two matches at different times that share a player: the order of the run matters
C2_Witness ==
    /\ Len(input) >= 2
    /\ DistinctPlayedAt(input)
    /\ standingsOut.done
    /\ deltasOut.done
    /\ \E i, j \in 1..Len(input) :
          /\ i # j
          /\ input[i].winnerId \in {input[j].playerOneId, input[j].playerTwoId}

\* C3: for every match set and every order in which each function receives it,
\* the rating calculateSeasonStandings reports for a player is 1000 plus the sum
\* of the deltas computeEloDeltas reports for that player.
C3_DeltasMatchStandings ==
    (standingsOut.done /\ deltasOut.done) =>
        \A p \in PlayersIn(input) :
            RatingIn(standingsOut.value, p)
                = BASE_RATING + DeltaSum(deltasOut.value, input, p)

-----------------------------------------------------------------------------
(* The season partitioner *)

\* getSeasonBoundaries with the first tick of the next month for the end
getSeasonBoundariesUpToNext(date) ==
    LET start == (date \div TicksPerMonth) * TicksPerMonth
    IN  [start |-> start, end |-> start + TicksPerMonth]

\* the calendar month of a date: first and last tick
getSeasonBoundaries(date) ==
    LET start == (date \div TicksPerMonth) * TicksPerMonth
    IN  [start |-> start, end |-> start + TicksPerMonth - 1]

\* FindSeasonFor with the endDate condition of the query left out
FindSeasonForStartOnly(tbl, date) ==
    LET hits == {i \in 1..Len(tbl) : tbl[i].startDate <= date}
    IN  IF hits = {} THEN 0 ELSE CHOOSE i \in hits : \A j \in hits : i <= j

\* prisma.season.findFirst({where: {startDate <= date, endDate >= date}}):
\* the id of the first row whose window holds the date, 0 when there is none
FindSeasonFor(tbl, date) ==
    LET hits == {i \in 1..Len(tbl) : tbl[i].startDate <= date /\ tbl[i].endDate >= date}
    IN  IF hits = {} THEN 0 ELSE CHOOSE i \in hits : \A j \in hits : i <= j

\* prisma.season.create: a row with the boundaries of the date's month and no champion
CreateSeason(tbl, date) ==
    Append(tbl, [startDate |-> getSeasonBoundaries(date).start,
                 endDate |-> getSeasonBoundaries(date).end,
                 championId |-> 0])

\* getOrCreateSeasonForDate run without another request in between: the Season
\* table afterwards and the id of the season returned
getOrCreateSeasonForDate(tbl, date) ==
    LET existing == FindSeasonFor(tbl, date)
    IN  IF existing # 0 THEN [seasons |-> tbl, id |-> existing]
        ELSE [seasons |-> CreateSeason(tbl, date), id |-> Len(tbl) + 1]

-----------------------------------------------------------------------------
(* Champion determination *)

\* season.matches: the Match rows that point to the season
SeasonMatches(ms, sid) == SelectSeq(ms, LAMBDA m : m.seasonId = sid)

\* IsPastSeason with lte for lt
IsPastSeasonInclusive(season, t) == season.endDate <= t

\* where: {endDate: {lt: now}}
IsPastSeason(season, t) == season.endDate < t

\* the row of one past season after the callback of ensurePastSeasonChampions
ChampionChecked(season, standings) ==
    IF standings = <<>> THEN season
    ELSE IF season.championId = standings[1].player THEN season
    ELSE [season EXCEPT !.championId = standings[1].player]

\* ChampionWritten without the early return for an unchanged champion
ChampionWrittenAlways(season, standings) == standings # <<>>

\* whether the callback issues prisma.season.update for the season
ChampionWritten(season, standings) == ChampionChecked(season, standings) # season

\* ensurePastSeasonChampions at time t: the Season table afterwards
ensurePastSeasonChampions(tbl, ms, t) ==
    [i \in 1..Len(tbl) |->
        IF IsPastSeason(tbl[i], t)
        THEN ChampionChecked(tbl[i], calculateSeasonStandings(SeasonMatches(ms, i)))
        ELSE tbl[i]]

\* the seasons for which ensurePastSeasonChampions issues prisma.season.update
EnsureUpdates(tbl, ms, t) ==
    {i \in 1..Len(tbl) :
        /\ IsPastSeason(tbl[i], t)
        /\ ChampionWritten(tbl[i], calculateSeasonStandings(SeasonMatches(ms, i)))}

\* the seasons for which the payload loop of GET /api/seasons issues
\* prisma.season.update at time t: no champion, ended, and with standings
PayloadUpdates(tbl, ms, t) ==
    {i \in 1..Len(tbl) :
        /\ tbl[i].championId = 0
        /\ tbl[i].endDate < t
        /\ calculateSeasonStandings(SeasonMatches(ms, i)) # <<>>}

PayloadChecked(tbl, ms, t) ==
    [i \in 1..Len(tbl) |->
        IF i \in PayloadUpdates(tbl, ms, t)
        THEN [tbl[i] EXCEPT !.championId =
                  calculateSeasonStandings(SeasonMatches(ms, i))[1].player]
        ELSE tbl[i]]

-----------------------------------------------------------------------------
(* The league: the routes, each run from request to response *)

LeaguePairs == {pq \in EnginePairs : pq[1] \in LeaguePlayers /\ pq[2] \in LeaguePlayers}
LeagueScores == {<<11, 5>>, <<5, 11>>}

Absent == -1

\* a body of PATCH /api/matches/:id; a field left out is Absent
PatchBody(pq, sc, t) ==
    [playerOneId |-> pq[1], playerTwoId |-> pq[2],
     playerOnePoints |-> sc[1], playerTwoPoints |-> sc[2], playedAt |-> t]

\* the bodies tried: one that sends the players, the scores or playedAt, or nothing
PatchBodies ==
    {PatchBody(pq, <<Absent, Absent>>, Absent) : pq \in LeaguePairs}
        \cup {PatchBody(<<Absent, Absent>>, sc, Absent) : sc \in LeagueScores}
        \cup {PatchBody(<<Absent, Absent>>, <<Absent, Absent>>, t) : t \in Times}
        \cup {PatchBody(<<Absent, Absent>>, <<Absent, Absent>>, Absent)}

Init ==
    /\ DbIdle
    /\ EngineIdle

Tick ==
    /\ now < MaxTime
    /\ now' = now + 1
    /\ lastOp' = "Tick"
    /\ updated' = {}
    /\ UNCHANGED <<seasons, matches, nextMatchId, returned, pending>>
    /\ UNCHANGED <<requestVars, engineVars, accountVars>>

\* POST /api/matches
PostMatch ==
    \E pq \in LeaguePairs, sc \in LeagueScores, playedDate \in Times :
        LET season == getOrCreateSeasonForDate(seasons, playedDate) IN
        /\ nextMatchId <= MaxMatches
        /\ seasons' = season.seasons
        /\ matches' = Append(matches, MatchRow(nextMatchId, pq, sc, playedDate, season.id))
        /\ nextMatchId' = nextMatchId + 1
        /\ lastOp' = "PostMatch"
        /\ updated' = {}
        /\ UNCHANGED <<now, returned, pending>>
        /\ UNCHANGED <<requestVars, engineVars, accountVars>>

\* Patched with the winnerId of the existing row kept
PatchedKeepWinner(existing, body, sid) ==
    LET Field(sent, stored) == IF sent # Absent THEN sent ELSE stored
    IN  [id |-> existing.id,
         playerOneId |-> Field(body.playerOneId, existing.playerOneId),
         playerTwoId |-> Field(body.playerTwoId, existing.playerTwoId),
         playerOnePoints |-> Field(body.playerOnePoints, existing.playerOnePoints),
         playerTwoPoints |-> Field(body.playerTwoPoints, existing.playerTwoPoints),
         winnerId |-> existing.winnerId,
         playedAt |-> Field(body.playedAt, existing.playedAt), seasonId |-> sid]

\* the row PATCH /api/matches/:id writes over an existing row
Patched(existing, body, sid) ==
    LET nextPlayerOneId ==
            IF body.playerOneId # Absent THEN body.playerOneId ELSE existing.playerOneId
        nextPlayerTwoId ==
            IF body.playerTwoId # Absent THEN body.playerTwoId ELSE existing.playerTwoId
        nextPlayerOnePoints ==
            IF body.playerOnePoints # Absent THEN body.playerOnePoints
            ELSE existing.playerOnePoints
        nextPlayerTwoPoints ==
            IF body.playerTwoPoints # Absent THEN body.playerTwoPoints
            ELSE existing.playerTwoPoints
        nextPlayedAt == IF body.playedAt # Absent THEN body.playedAt ELSE existing.playedAt
    IN  [id |-> existing.id,
         playerOneId |-> nextPlayerOneId, playerTwoId |-> nextPlayerTwoId,
         playerOnePoints |-> nextPlayerOnePoints,
         playerTwoPoints |-> nextPlayerTwoPoints,
         winnerId |-> IF nextPlayerOnePoints > nextPlayerTwoPoints
                      THEN nextPlayerOneId ELSE nextPlayerTwoId,
         playedAt |-> nextPlayedAt, seasonId |-> sid]

\* PATCH /api/matches/:id
PatchMatch ==
    \E i \in 1..Len(matches), body \in PatchBodies :
        LET next == Patched(matches[i], body, 0)
            season == getOrCreateSeasonForDate(seasons, next.playedAt)
        IN  /\ next.playerOneId # next.playerTwoId
            /\ next.playerOnePoints # next.playerTwoPoints
            /\ next.playerOnePoints >= 0 /\ next.playerTwoPoints >= 0
            /\ seasons' = season.seasons
            /\ matches' = [matches EXCEPT ![i] = Patched(matches[i], body, season.id)]
            /\ lastOp' = "PatchMatch"
            /\ updated' = {}
            /\ UNCHANGED <<now, nextMatchId, returned, pending>>
            /\ UNCHANGED <<requestVars, engineVars, accountVars>>

\* DELETE /api/matches/:id
DeleteMatch ==
    \E i \in 1..Len(matches) :
        /\ matches' = SubSeq(matches, 1, i - 1) \o SubSeq(matches, i + 1, Len(matches))
        /\ lastOp' = "DeleteMatch"
        /\ updated' = {}
        /\ UNCHANGED <<now, seasons, nextMatchId, returned, pending>>
        /\ UNCHANGED <<requestVars, engineVars, accountVars>>

\* GET /api/players: champion determination, then the current season is looked
\* up or created for the statistics
GetPlayers ==
    LET ensured == ensurePastSeasonChampions(seasons, matches, now) IN
    /\ seasons' = getOrCreateSeasonForDate(ensured, now).seasons
    /\ updated' = EnsureUpdates(seasons, matches, now)
    /\ lastOp' = "GetPlayers"
    /\ UNCHANGED <<now, matches, nextMatchId, returned, pending>>
    /\ UNCHANGED <<requestVars, engineVars, accountVars>>

\* GET /api/seasons: champion determination, the seasons are read and the
\* current season looked up or created, then the payload loop runs with a clock
\* read of its own
GetSeasons ==
    \E later \in {now, now + 1} :
        LET ensured == ensurePastSeasonChampions(seasons, matches, now)
            payload == PayloadChecked(ensured, matches, later)
        IN  /\ later <= MaxTime
            /\ seasons' = getOrCreateSeasonForDate(payload, now).seasons
            /\ updated' = EnsureUpdates(seasons, matches, now)
                            \cup PayloadUpdates(ensured, matches, later)
            /\ now' = later
            /\ lastOp' = "GetSeasons"
            /\ UNCHANGED <<matches, nextMatchId, returned, pending>>
            /\ UNCHANGED <<requestVars, engineVars, accountVars>>

Next ==
    \/ Tick
    \/ PostMatch
    \/ PatchMatch
    \/ DeleteMatch
    \/ GetPlayers
    \/ GetSeasons

Spec == Init /\ [][Next]_vars

\* the match routes alone: what the ratings are computed from
MatchesNext ==
    \/ PostMatch
    \/ PatchMatch
    \/ DeleteMatch

SpecMatches == Init /\ [][MatchesNext]_vars

-----------------------------------------------------------------------------
(* What the league's read routes report *)

\* s is sorted by playedAt descending; m goes after every element that is not earlier
RECURSIVE InsertByPlayedAtDesc(_, _)
InsertByPlayedAtDesc(m, s) ==
    IF s = <<>> THEN <<m>>
    ELSE IF Head(s).playedAt >= m.playedAt
         THEN <<Head(s)>> \o InsertByPlayedAtDesc(m, Tail(s))
         ELSE <<m>> \o s

\* prisma.match.findMany({orderBy: {playedAt: "desc"}}); rows with the same
\* playedAt come in table order
RECURSIVE OrderByPlayedAtDesc(_)
OrderByPlayedAtDesc(ms) ==
    IF ms = <<>> THEN <<>>
    ELSE InsertByPlayedAtDesc(ms[Len(ms)],
                              OrderByPlayedAtDesc(SubSeq(ms, 1, Len(ms) - 1)))

\* the deltas GET /api/matches attaches to the matches
MatchesDeltas(ms) == computeEloDeltas(OrderByPlayedAtDesc(ms))

\* the standings GET /api/seasons computes for a season
SeasonStandings(ms, sid) == calculateSeasonStandings(SeasonMatches(ms, sid))

-----------------------------------------------------------------------------
(* Properties of the league *)

Rows(ms) == {ms[i] : i \in 1..Len(ms)}

\* the seasons of the rows a step created, changed or deleted
TouchedSeasons(before, after) ==
    {m.seasonId : m \in (Rows(before) \ Rows(after)) \cup (Rows(after) \ Rows(before))}

\* the opponent of player p in match m
OpponentIn(m, p) == IF p = m.playerOneId THEN m.playerTwoId ELSE m.playerOneId

\* in every season, the delta of a player's first match is the Elo step from
\* rating 1000 against the opponent's rating within the season, and a player
\* with one match in the season is rated 1000 plus that delta
C4_FirstMatchFromBase ==
    LET deltas == MatchesDeltas(matches) IN
    \A sid \in 1..Len(seasons) :
        LET run == SortByPlayedAt(SeasonMatches(matches, sid))
        IN  \A i \in 1..Len(run) : \A p \in {run[i].playerOneId, run[i].playerTwoId} :
                LET earlier == SubSeq(run, 1, i - 1)
                    opp == OpponentIn(run[i], p)
                IN  p \notin PlayersIn(earlier) =>
                        /\ DeltaFor(deltas, run[i], p) =
                              RoundedDelta(BASE_RATING,
                                           BASE_RATING + DeltaSum(deltas, earlier, opp),
                                           run[i].winnerId = p)
                        /\ p \notin PlayersIn(SubSeq(run, i + 1, Len(run))) =>
                              RatingIn(SeasonStandings(matches, sid), p) =
                                  BASE_RATING + DeltaFor(deltas, run[i], p)

\* a step that creates, changes or deletes matches of other seasons only leaves
\* the standings of a season and the deltas of its matches as they were
C4_IsolationStep ==
    LET before == MatchesDeltas(matches)
        after == MatchesDeltas(matches')
    IN  \A sid \in 1..Len(seasons) :
            sid \notin TouchedSeasons(matches, matches') =>
                /\ SeasonStandings(matches', sid) = SeasonStandings(matches, sid)
                /\ \A m \in Rows(SeasonMatches(matches, sid)) :
                      after[m.id] = before[m.id]

\* C4: ratings are scoped per season: a player's first match of a season is
\* evaluated from rating 1000, and creating, changing or deleting matches of
\* season S leaves the ratings and the deltas of every other season unchanged.
C4_SeasonIsolation == []C4_FirstMatchFromBase /\ [][C4_IsolationStep]_vars

\* a match was just changed while another season holds a match of one of its
\* players, played after a match that moved that player's rating
C4_Witness ==
    /\ lastOp = "PatchMatch"
    /\ Len(matches) = 2
    /\ matches[1].seasonId # matches[2].seasonId
    /\ matches[1].playedAt > matches[2].playedAt
    /\ matches[1].winnerId \in {matches[2].playerOneId, matches[2].playerTwoId}

DeterminationRoutes == {"GetPlayers", "GetSeasons"}

\* a season whose endDate has not passed has no champion
C6_NoChampionBeforeEnd ==
    \A i \in 1..Len(seasons) : seasons[i].endDate >= now => seasons[i].championId = 0

\* a champion determination gives every ended season that has matches and no
\* champion the first player of its standings
C6_DeterminationStep ==
    lastOp' \in DeterminationRoutes =>
        \A i \in 1..Len(seasons) :
            (/\ seasons[i].endDate < now
             /\ SeasonMatches(matches, i) # <<>>
             /\ seasons[i].championId = 0)
                => seasons'[i].championId = SeasonStandings(matches, i)[1].player

\* C6: the next champion determination after a season with matches has ended
\* persists the first player of its standings as championId, and a season whose
\* endDate has not passed never has a champion.
C6_ChampionAfterEnd == []C6_NoChampionBeforeEnd /\ [][C6_DeterminationStep]_vars

\* a determination has just written a champion
C6_Witness ==
    /\ lastOp \in DeterminationRoutes
    /\ updated # {}
    /\ \E i \in updated : seasons[i].championId # 0 /\ seasons[i].endDate < now

\* C7: a champion determination that follows another one, with nothing in
\* between, leaves the championId of every season that has one unchanged and
\* issues no update for it.
C7_SecondRunWritesNothing ==
    [][(lastOp \in DeterminationRoutes /\ lastOp' \in DeterminationRoutes) =>
          \A i \in 1..Len(seasons) :
              seasons[i].championId # 0 =>
                  /\ seasons'[i].championId = seasons[i].championId
                  /\ i \notin updated']_vars

\* a determination that found a champion in place and wrote nothing
C7_Witness ==
    /\ lastOp \in DeterminationRoutes
    /\ updated = {}
    /\ \E i \in 1..Len(seasons) :
          /\ seasons[i].championId # 0
          /\ SeasonMatches(matches, i) # <<>>

-----------------------------------------------------------------------------
(* The season partitioner on its own: getOrCreateSeasonForDate called for  *)
(* dates of the first MaxSeasons months, first one call after the other,   *)
(* then by requests that run at the same time.                             *)

PartitionTimes == 0..(MaxSeasons * TicksPerMonth - 1)

\* one call, from findFirst to the return, with no other call in between
SeasonCall ==
    \E date \in PartitionTimes :
        LET season == getOrCreateSeasonForDate(seasons, date) IN
        /\ seasons' = season.seasons
        /\ returned' = returned \cup {<<date, season.id>>}
        /\ lastOp' = "getOrCreateSeasonForDate"
        /\ UNCHANGED <<now, matches, nextMatchId, updated, pending>>
        /\ UNCHANGED <<requestVars, engineVars, accountVars>>

SpecPartition == Init /\ [][SeasonCall]_vars

NoCall == -1

\* a request's call finds a season for its date and returns it
LookupFound(r) ==
    \E date \in PartitionTimes :
        /\ pending[r] = NoCall
        /\ FindSeasonFor(seasons, date) # 0
        /\ returned' = returned \cup {<<date, FindSeasonFor(seasons, date)>>}
        /\ lastOp' = "getOrCreateSeasonForDate"
        /\ UNCHANGED <<now, seasons, matches, nextMatchId, updated, pending>>
        /\ UNCHANGED <<requestVars, engineVars, accountVars>>

\* a request's call finds no season for its date: the create is still to come
LookupMissing(r) ==
    \E date \in PartitionTimes :
        /\ pending[r] = NoCall
        /\ FindSeasonFor(seasons, date) = 0
        /\ Len(seasons) + Cardinality({q \in DOMAIN pending : pending[q] # NoCall})
              < MaxSeasons
        /\ pending' = [pending EXCEPT ![r] = date]
        /\ lastOp' = "getOrCreateSeasonForDate"
        /\ UNCHANGED <<now, seasons, matches, nextMatchId, updated, returned>>
        /\ UNCHANGED <<requestVars, engineVars, accountVars>>

\* the create of a call that found no season
CreateMissing(r) ==
    /\ pending[r] # NoCall
    /\ seasons' = CreateSeason(seasons, pending[r])
    /\ returned' = returned \cup {<<pending[r], Len(seasons) + 1>>}
    /\ pending' = [pending EXCEPT ![r] = NoCall]
    /\ lastOp' = "getOrCreateSeasonForDate"
    /\ UNCHANGED <<now, matches, nextMatchId, updated>>
    /\ UNCHANGED <<requestVars, engineVars, accountVars>>

ConcurrentNext ==
    \E r \in 1..NumRequests :
        \/ LookupFound(r)
        \/ LookupMissing(r)
        \/ CreateMissing(r)

SpecConcurrent == Init /\ [][ConcurrentNext]_vars

-----------------------------------------------------------------------------
(* Properties of the season partitioner *)

MonthOf(date) == date \div TicksPerMonth

\* calls for dates of one month returned one season; calls for dates of
\* different months returned different seasons whose windows do not overlap
C9_OneSeasonPerMonthReturned ==
    \A c, d \in returned :
        IF MonthOf(c[1]) = MonthOf(d[1]) THEN c[2] = d[2]
        ELSE /\ c[2] # d[2]
             /\ \/ seasons[c[2]].endDate < seasons[d[2]].startDate
                \/ seasons[d[2]].endDate < seasons[c[2]].startDate

\* a call for a month for which an earlier call returned creates no row
C9_SecondCallCreatesNothing ==
    \A c \in returned' \ returned :
        (\E d \in returned : MonthOf(d[1]) = MonthOf(c[1])) => seasons' = seasons

\* C9: in a series of calls one after the other, two dates of the same calendar
\* month get the same season id, the second call creating no row, and two dates
\* of different months get different seasons with windows that do not overlap.
C9_IdempotentPerMonth ==
    []C9_OneSeasonPerMonthReturned /\ [][C9_SecondCallCreatesNothing]_vars

\* the first and the last tick of one month were asked for, and the first tick
\* of the next
C9_Witness ==
    \E c, d, e \in returned :
        /\ c[1] # d[1]
        /\ MonthOf(c[1]) = MonthOf(d[1])
        /\ e[1] = d[1] + 1
        /\ MonthOf(e[1]) # MonthOf(d[1])

\* C10: at most one season row exists per calendar month.
C10_OneRowPerMonth ==
    \A i, j \in 1..Len(seasons) :
        MonthOf(seasons[i].startDate) = MonthOf(seasons[j].startDate) => i = j

-----------------------------------------------------------------------------
(* The match routes with the requests they refuse: every body a client may *)
(* send, answered with a status.  A negative score is -2 here, -1 being    *)
(* Absent.                                                                 *)

\* the player ids of the requests: two players of the league and an id that
\* no Player row has
RequestPlayers == {1, 2} \cup (Players \ LeaguePlayers)
RequestPoints == {-2, 5, 11}
\* the playedAt values of the requests: the first tick of the first two months
RequestTimes == {0, TicksPerMonth}

MatchBody(p1, p2, s1, s2, t) ==
    [playerOneId |-> p1, playerTwoId |-> p2,
     playerOnePoints |-> s1, playerTwoPoints |-> s2, playedAt |-> t]

\* bodies of POST /api/matches: complete ones, and the empty body
PostBodies ==
    {MatchBody(p1, p2, s1, s2, t) :
        p1 \in RequestPlayers, p2 \in RequestPlayers,
        s1 \in RequestPoints, s2 \in RequestPoints,
        t \in {Absent, TicksPerMonth}}
        \cup {MatchBody(Absent, Absent, Absent, Absent, Absent)}

\* bodies of PATCH /api/matches/:id: some of the player ids, some of the
\* scores, or playedAt
PatchRequestBodies ==
    {MatchBody(p1, p2, Absent, Absent, Absent) :
        p1 \in RequestPlayers \cup {Absent}, p2 \in RequestPlayers \cup {Absent}}
        \cup {MatchBody(Absent, Absent, s1, s2, Absent) :
                s1 \in RequestPoints \cup {Absent}, s2 \in RequestPoints \cup {Absent}}
        \cup {MatchBody(Absent, Absent, Absent, Absent, t) : t \in RequestTimes}

\* prisma.player.findUnique finds a row
PlayerExists(id) == id \in players

\* ValidationStatus without the lookup of the two players
ValidationStatusNoLookup(p1, p2, s1, s2, ok) ==
    IF p1 = p2 THEN 400
    ELSE IF s1 = s2 THEN 400
    ELSE IF s1 < 0 \/ s2 < 0 THEN 400
    ELSE ok

\* the checks both routes run on the values to store, in the code's order
ValidationStatus(p1, p2, s1, s2, ok) ==
    IF p1 = p2 THEN 400
    ELSE IF s1 = s2 THEN 400
    ELSE IF s1 < 0 \/ s2 < 0 THEN 400
    ELSE IF ~PlayerExists(p1) \/ ~PlayerExists(p2) THEN 404
    ELSE ok

\* the status POST /api/matches answers body with
PostStatus(body) ==
    IF \/ body.playerOneId = Absent \/ body.playerTwoId = Absent
       \/ body.playerOnePoints = Absent \/ body.playerTwoPoints = Absent
    THEN 400
    ELSE ValidationStatus(body.playerOneId, body.playerTwoId,
                          body.playerOnePoints, body.playerTwoPoints, 201)

\* the row with the given id, in a one-element or empty sequence (findUnique)
FindMatch(ms, id) == SelectSeq(ms, LAMBDA m : m.id = id)

\* the status PATCH /api/matches/:id answers body with
PatchStatus(ms, id, body) ==
    IF FindMatch(ms, id) = <<>> THEN 404
    ELSE LET next == Patched(FindMatch(ms, id)[1], body, 0)
         IN  ValidationStatus(next.playerOneId, next.playerTwoId,
                              next.playerOnePoints, next.playerTwoPoints, 200)

\* POST /api/matches as registered under the given route, from the request to
\* the response; authorization is <<>> for a request whose header is not
\* recorded and <<token>> otherwise
PostMatchAs(route, authorization, body) ==
        LET status == PostStatus(body)
            playedDate == IF body.playedAt # Absent THEN body.playedAt ELSE now
            season == getOrCreateSeasonForDate(seasons, playedDate)
        IN  /\ request' = IF authorization = <<>>
                           THEN [route |-> route, id |-> 0, body |-> body]
                           ELSE [route |-> route, token |-> authorization[1],
                                 id |-> 0, body |-> body]
            /\ response' = status
            /\ IF status = 201
               THEN /\ nextMatchId <= MaxMatches
                    /\ seasons' = season.seasons
                    /\ matches' = Append(matches,
                          MatchRow(nextMatchId,
                                   <<body.playerOneId, body.playerTwoId>>,
                                   <<body.playerOnePoints, body.playerTwoPoints>>,
                                   playedDate, season.id))
                    /\ nextMatchId' = nextMatchId + 1
               ELSE UNCHANGED <<seasons, matches, nextMatchId>>
            /\ lastOp' = "PostMatch"
            /\ updated' = {}
            /\ UNCHANGED <<now, returned, pending>>
            /\ UNCHANGED <<engineVars, accountVars>>

\* POST /api/matches with the given body
PostMatchOf(body) == PostMatchAs("POST", <<>>, body)

\* POST /api/matches
PostMatchRequest == \E body \in PostBodies : PostMatchOf(body)

\* PATCH /api/matches/:id with the given body, from the request to the response
PatchMatchOf(id, body) ==
        LET status == PatchStatus(matches, id, body)
        IN  /\ request' = [route |-> "PATCH", id |-> id, body |-> body]
            /\ response' = status
            /\ IF status = 200
               THEN LET i == CHOOSE j \in 1..Len(matches) : matches[j].id = id
                        next == Patched(matches[i], body, 0)
                        season == getOrCreateSeasonForDate(seasons, next.playedAt)
                    IN  /\ seasons' = season.seasons
                        /\ matches' = [matches EXCEPT
                                          ![i] = Patched(matches[i], body, season.id)]
               ELSE UNCHANGED <<seasons, matches>>
            /\ lastOp' = "PatchMatch"
            /\ updated' = {}
            /\ UNCHANGED <<now, nextMatchId, returned, pending>>
            /\ UNCHANGED <<engineVars, accountVars>>

\* PATCH /api/matches/:id
PatchMatchRequest ==
    \E id \in 1..nextMatchId, body \in PatchRequestBodies : PatchMatchOf(id, body)

RequestsNext ==
    \/ PostMatchRequest
    \/ PatchMatchRequest

SpecRequests == Init /\ [][RequestsNext]_vars

-----------------------------------------------------------------------------
(* Properties of the stored matches and of the refused requests *)

\* C11: after any sequence of POST and PATCH requests, every stored match has
\* two distinct players, two non-negative and unequal scores, and a winnerId
\* that is the player with the strictly higher score.
C11_StoredMatchesValid ==
    \A i \in 1..Len(matches) :
        LET m == matches[i] IN
        /\ m.playerOneId # m.playerTwoId
        /\ m.playerOnePoints >= 0 /\ m.playerTwoPoints >= 0
        /\ m.playerOnePoints # m.playerTwoPoints
        /\ m.playerOnePoints > m.playerTwoPoints => m.winnerId = m.playerOneId
        /\ m.playerTwoPoints > m.playerOnePoints => m.winnerId = m.playerTwoId

\* a PATCH that sent the scores and nothing else was accepted, and the match
\* it wrote is won by playerTwo; another stored match is won by playerOne
C11_Witness ==
    /\ request # <<>>
    /\ request.route = "PATCH"
    /\ response = 200
    /\ request.body.playerOnePoints # Absent
    /\ request.body.playerTwoPoints # Absent
    /\ request.body.playerOneId = Absent
    /\ \E i, j \in 1..Len(matches) :
          /\ matches[i].id = request.id
          /\ matches[i].winnerId = matches[i].playerTwoId
          /\ matches[i].playerOnePoints = request.body.playerOnePoints
          /\ matches[j].winnerId = matches[j].playerOneId


\* the values a match request asks to store: the body's for POST, the body's
\* over the existing row's for PATCH; <<>> when the PATCH names no stored match
Asked(req, ms) ==
    IF req.route = "POST" THEN <<req.body>>
    ELSE LET Field(sent, stored) == IF sent = Absent THEN stored ELSE sent IN
         [i \in 1..Len(FindMatch(ms, req.id)) |->
            LET existing == FindMatch(ms, req.id)[i] IN
            MatchBody(Field(req.body.playerOneId, existing.playerOneId),
                      Field(req.body.playerTwoId, existing.playerTwoId),
                      Field(req.body.playerOnePoints, existing.playerOnePoints),
                      Field(req.body.playerTwoPoints, existing.playerTwoPoints),
                      Absent)]

SelfMatch(b) == b.playerOneId # Absent /\ b.playerOneId = b.playerTwoId
TiedScores(b) == b.playerOnePoints # Absent /\ b.playerOnePoints = b.playerTwoPoints
NegativeScore(b) ==
    \/ b.playerOnePoints # Absent /\ b.playerOnePoints < 0
    \/ b.playerTwoPoints # Absent /\ b.playerTwoPoints < 0
MissingPlayer(b) ==
    \/ b.playerOneId # Absent /\ b.playerOneId \notin LeaguePlayers
    \/ b.playerTwoId # Absent /\ b.playerTwoId \notin LeaguePlayers

\* the step of a refused request: an error status, and the tables as they were
C12_RefusedStep ==
    \A b \in {Asked(request', matches)[i] : i \in 1..Len(Asked(request', matches))} :
        /\ (SelfMatch(b) \/ TiedScores(b) \/ NegativeScore(b))
              => response' = 400 /\ UNCHANGED <<matches, seasons, nextMatchId>>
        /\ MissingPlayer(b)
              => response' \in {400, 404} /\ UNCHANGED <<matches, seasons, nextMatchId>>
        /\ (MissingPlayer(b) /\ ~SelfMatch(b) /\ ~TiedScores(b) /\ ~NegativeScore(b))
              => response' = 404

\* C12: a match request that is a self-match, has tied scores, has a negative
\* score or names a non-existent player is answered with an error (400, or 404
\* for the missing player) and changes nothing: no match is created or
\* modified and no season row is created by that request.
C12_RefusedChangesNothing == [][C12_RefusedStep]_vars

\* with a match stored, a POST for a month that has no season yet named a
\* player that does not exist, was answered 404, and the month still has no
\* season
C12_Witness ==
    /\ request # <<>>
    /\ matches # <<>>
    /\ request.route = "POST"
    /\ response = 404
    /\ MissingPlayer(request.body)
    /\ request.body.playedAt # Absent
    /\ FindSeasonFor(seasons, request.body.playedAt) = 0

-----------------------------------------------------------------------------
(* Player statistics: calculatePlayerEnhancements, buildPlayerStats and    *)
(* getLeaderboardSnapshot                                                  *)

\* a Player row with the relations fetchPlayersWithRelations includes, each in
\* table order
PlayerWithRelations(p, ms) ==
    [id |-> p,
     matchesAsPlayerOne |-> SelectSeq(ms, LAMBDA m : m.playerOneId = p),
     matchesAsPlayerTwo |-> SelectSeq(ms, LAMBDA m : m.playerTwoId = p),
     matchesWon |-> SelectSeq(ms, LAMBDA m : m.winnerId = p)]

\* getChampionCounts: the number of seasons each champion holds
ChampionCount(tbl, p) == Cardinality({i \in 1..Len(tbl) : tbl[i].championId = p})

\* the first loop: streak and longestStreak after the matches of sorted
RECURSIVE StreakRun(_, _, _, _)
StreakRun(sorted, p, streak, longestStreak) ==
    IF sorted = <<>> THEN longestStreak
    ELSE IF Head(sorted).winnerId = p
         THEN StreakRun(Tail(sorted), p, streak + 1,
                        IF streak + 1 > longestStreak THEN streak + 1
                        ELSE longestStreak)
         ELSE StreakRun(Tail(sorted), p, 0, longestStreak)

\* CurrentStreakFrom that goes on past the matches not won
RECURSIVE CurrentStreakNoBreak(_, _, _)
CurrentStreakNoBreak(sorted, p, i) ==
    IF i < 1 THEN 0
    ELSE (IF sorted[i].winnerId = p THEN 1 ELSE 0)
            + CurrentStreakNoBreak(sorted, p, i - 1)

\* the second loop: from the last match backwards, up to the first match not won
RECURSIVE CurrentStreakFrom(_, _, _)
CurrentStreakFrom(sorted, p, i) ==
    IF i >= 1 /\ sorted[i].winnerId = p
    THEN 1 + CurrentStreakFrom(sorted, p, i - 1)
    ELSE 0

\* InSeasonWindow without the last instant of the season
InSeasonWindowOpen(m, currentSeason) ==
    /\ m.playedAt >= currentSeason.startDate
    /\ m.playedAt < currentSeason.endDate

InSeasonWindow(m, currentSeason) ==
    /\ m.playedAt >= currentSeason.startDate
    /\ m.playedAt <= currentSeason.endDate

\* Badges with the floor of Dominantie one match lower
BadgesDominanceAtFour(currentStreak, longestStreak, seasonCount, seasonWins) ==
    LET seasonLosses == seasonCount - seasonWins
        Pushed(cond, badge) == IF cond THEN <<badge>> ELSE <<>>
    IN  Pushed(currentStreak >= 3, "In vorm")
        \o Pushed(seasonCount >= 3 /\ seasonLosses = 0, "Perfecte maand")
        \o Pushed(seasonCount >= 4 /\ 4 * seasonWins >= 3 * seasonCount, "Dominantie")
        \o Pushed(seasonCount >= 10, "Marathonspeler")
        \o Pushed(longestStreak >= 5, "Winmachine")

\* the badges pushed, in the order of the code.  seasonWins / (n || 1) >= 0.75
\* is compared as 4 * seasonWins >= 3 * n: 0.75 is a double and two ratios of
\* small integers that differ are never rounded to the same double.
Badges(currentStreak, longestStreak, seasonCount, seasonWins) ==
    LET seasonLosses == seasonCount - seasonWins
        Pushed(cond, badge) == IF cond THEN <<badge>> ELSE <<>>
    IN  Pushed(currentStreak >= 3, "In vorm")
        \o Pushed(seasonCount >= 3 /\ seasonLosses = 0, "Perfecte maand")
        \o Pushed(/\ seasonCount >= 5
                  /\ 4 * seasonWins >= 3 * (IF seasonCount = 0 THEN 1 ELSE seasonCount),
                  "Dominantie")
        \o Pushed(seasonCount >= 10, "Marathonspeler")
        \o Pushed(longestStreak >= 5, "Winmachine")

calculatePlayerEnhancements(player, currentSeason, tbl) ==
    LET sorted == SortByPlayedAt(player.matchesAsPlayerOne \o player.matchesAsPlayerTwo)
        currentStreak == CurrentStreakFrom(sorted, player.id, Len(sorted))
        longestStreak == StreakRun(sorted, player.id, 0, 0)
        seasonMatches == SelectSeq(sorted, LAMBDA m : InSeasonWindow(m, currentSeason))
        seasonWins == Len(SelectSeq(seasonMatches, LAMBDA m : m.winnerId = player.id))
    IN  [badges |-> Badges(currentStreak, longestStreak, Len(seasonMatches), seasonWins),
         currentStreak |-> currentStreak,
         longestStreak |-> longestStreak,
         championships |-> ChampionCount(tbl, player.id),
         justReachedStreakFive |-> (currentStreak = 5)]

\* the reduce over the player's matches
RECURSIVE PointsOf(_, _)
PointsOf(ms, p) ==
    IF ms = <<>> THEN [for |-> 0, against |-> 0]
    ELSE LET m == ms[Len(ms)]
             acc == PointsOf(SubSeq(ms, 1, Len(ms) - 1), p)
             isPlayerOne == (m.playerOneId = p)
             scored == IF isPlayerOne THEN m.playerOnePoints ELSE m.playerTwoPoints
             conceded == IF isPlayerOne THEN m.playerTwoPoints ELSE m.playerOnePoints
         IN  [for |-> acc.for + scored, against |-> acc.against + conceded]

\* WinRate with the division done whatever the number of matches: 0 / 0 is NaN,
\* written as the ratio 0 to 0
WinRateUnguarded(wins, n) == [num |-> wins, den |-> n]

\* wins / n as a ratio, 0 when there are no matches: the double the code
\* computes is the correctly rounded value of the ratio, and two ratios of
\* small integers that differ are never rounded to the same double
WinRate(wins, n) == IF n # 0 THEN [num |-> wins, den |-> n] ELSE [num |-> 0, den |-> 1]

buildPlayerStats(player, currentSeason, tbl) ==
    LET ms == player.matchesAsPlayerOne \o player.matchesAsPlayerTwo
        wins == Len(player.matchesWon)
        points == PointsOf(ms, player.id)
        enhancements == calculatePlayerEnhancements(player, currentSeason, tbl)
    IN  [player |-> player.id,
         wins |-> wins,
         losses |-> Len(ms) - wins,
         matches |-> Len(ms),
         pointsFor |-> points.for,
         pointsAgainst |-> points.against,
         winRate |-> WinRate(wins, Len(ms)),
         pointDifferential |-> points.for - points.against,
         badges |-> enhancements.badges,
         currentStreak |-> enhancements.currentStreak,
         longestStreak |-> enhancements.longestStreak,
         championships |-> enhancements.championships,
         justReachedStreakFive |-> enhancements.justReachedStreakFive]


\* BoardCompare without the tie-break on pointDifferential
BoardCompareRateOnly(a, b) ==
    b.winRate.num * a.winRate.den - a.winRate.num * b.winRate.den

\* the comparator of the leaderboard sort, as its sign: the win rates are
\* ratios with positive denominators, compared by cross-multiplication
BoardCompare(a, b) ==
    IF b.winRate.num * a.winRate.den = a.winRate.num * b.winRate.den
    THEN b.pointDifferential - a.pointDifferential
    ELSE b.winRate.num * a.winRate.den - a.winRate.num * b.winRate.den

\* s is sorted; e goes after every element it does not come before
RECURSIVE InsertBoard(_, _)
InsertBoard(e, s) ==
    IF s = <<>> THEN <<e>>
    ELSE IF BoardCompare(Head(s), e) <= 0
         THEN <<Head(s)>> \o InsertBoard(e, Tail(s))
         ELSE <<e>> \o s

RECURSIVE SortBoard(_)
SortBoard(es) ==
    IF es = <<>> THEN <<>>
    ELSE InsertBoard(es[Len(es)], SortBoard(SubSeq(es, 1, Len(es) - 1)))

\* getLeaderboardSnapshot, given the Match and Season tables and the current
\* season's id: the statistics of the players, in the order they are fetched,
\* sorted
getLeaderboardSnapshot(ms, tbl, currentSeasonId) ==
    SortBoard([p \in 1..Cardinality(Players) |->
                  buildPlayerStats(PlayerWithRelations(p, ms),
                                   tbl[currentSeasonId], tbl)])

-----------------------------------------------------------------------------
(* The player statistics on their own: a Match table and the current       *)
(* season, handed to buildPlayerStats for every player.                    *)

MaxHistory == 10     \* matches in the history of one player
MaxEdge == 1         \* of them, at each tick next to an end of the current season

\* the season the statistics are asked in: the second month
StatsSeason == CreateSeason(<<>>, TicksPerMonth)

\* the playedAt values of a history of n matches: s[1] matches at the last tick
\* before the current season, s[2] at its first tick, s[3] at the first tick
\* after it, and the others at its last tick
HistoryShapes(n) ==
    {s \in (0..MaxEdge) \X (0..MaxEdge) \X (0..MaxEdge) : s[1] + s[2] + s[3] <= n}

HistoryTick(i, n, s) ==
    IF i <= s[1] THEN StatsSeason[1].startDate - 1
    ELSE IF i <= s[1] + s[2] THEN StatsSeason[1].startDate
    ELSE IF i <= n - s[3] THEN StatsSeason[1].endDate
    ELSE StatsSeason[1].endDate + 1

\* a long history between players 1 and 2, listed by id in the order played:
\* won[i] tells whether player 1 (playerOne) won match i
HistoryRows(n, won, s) ==
    [i \in 1..n |->
        MatchRow(i, <<1, 2>>, IF won[i] THEN <<11, 5>> ELSE <<5, 11>>,
                 HistoryTick(i, n, s),
                 FindSeasonFor(StatsSeason, HistoryTick(i, n, s)))]

\* the long histories of up to longest matches
HistoryInputs(longest) ==
    UNION {{HistoryRows(n, won, s) : won \in [1..n -> BOOLEAN], s \in HistoryShapes(n)}
           : n \in 0..longest}

\* the short lists of the rating engine, where a player is playerOne in one
\* match and playerTwo in another
MixedInputs ==
    {[i \in 1..Len(shape) |->
         MatchRow(i, shape[i][1], shape[i][2], shape[i][3],
                  FindSeasonFor(StatsSeason, shape[i][3]))] : shape \in EngineInputs}

\* the tables when the statistics are asked for: the current season exists
StatsDb ==
    /\ now = StatsSeason[1].startDate
    /\ seasons = StatsSeason
    /\ matches = <<>>
    /\ nextMatchId = 1
    /\ lastOp = "none"
    /\ updated = {}
    /\ returned = {}
    /\ pending = [r \in 1..NumRequests |-> -1]
    /\ request = <<>>
    /\ response = 0
    /\ AccountsIdle

StatsInit ==
    /\ input \in HistoryInputs(MaxHistory) \cup MixedInputs
    /\ standingsOut = NoResult
    /\ deltasOut = NoResult
    /\ statsOut = NoResult
    /\ StatsDb

\* GET /api/players maps buildPlayerStats over the players
CallPlayerStats ==
    /\ ~statsOut.done
    /\ statsOut' =
          [done |-> TRUE,
           value |-> [p \in 1..Cardinality(Players) |->
                         buildPlayerStats(PlayerWithRelations(p, input),
                                          seasons[1], seasons)]]
    /\ UNCHANGED <<input, standingsOut, deltasOut>>
    /\ UNCHANGED <<dbVars, accountVars>>

SpecStats == StatsInit /\ [][CallPlayerStats]_vars

\* the outcomes of player p's matches in the order calculatePlayerEnhancements
\* walks them: TRUE for a win
Outcomes(ms, p) ==
    LET own == SortByPlayedAt(SelectSeq(ms, LAMBDA m : m.playerOneId = p)
                                \o SelectSeq(ms, LAMBDA m : m.playerTwoId = p))
    IN  [i \in 1..Len(own) |-> own[i].winnerId = p]

\* i..j is a run of wins
WinRun(o, i, j) == \A k \in i..j : o[k]

\* the length of the longest run of wins anywhere in o
LongestRun(o) ==
    CHOOSE l \in 0..Len(o) :
        /\ l > 0 => \E i \in 1..(Len(o) - l + 1) : WinRun(o, i, i + l - 1)
        /\ \A i \in 1..Len(o) : \A j \in i..Len(o) :
              WinRun(o, i, j) => j - i + 1 <= l

\* the length of the run of wins that ends at the last match
TrailingRun(o) ==
    CHOOSE l \in 0..Len(o) :
        /\ WinRun(o, Len(o) - l + 1, Len(o))
        /\ l < Len(o) => ~o[Len(o) - l]

\* C13: longestStreak is the maximum number of consecutive wins anywhere in the
\* player's matches in playedAt order and currentStreak the number of
\* consecutive wins ending at the most recent match (0 when that match is a
\* loss or the player has no matches); for [W, W, L, W, W, W] both are 3.
C13_Streaks ==
    statsOut.done =>
        \A p \in DOMAIN statsOut.value :
            LET o == Outcomes(input, p) IN
            /\ statsOut.value[p].longestStreak = LongestRun(o)
            /\ statsOut.value[p].currentStreak = TrailingRun(o)
            /\ (o = <<>> \/ ~o[Len(o)]) => statsOut.value[p].currentStreak = 0
            /\ o = <<TRUE, TRUE, FALSE, TRUE, TRUE, TRUE>> =>
                  /\ statsOut.value[p].longestStreak = 3
                  /\ statsOut.value[p].currentStreak = 3

\* the statistics of a player whose outcomes are [W, W, L, W, W, W],
\* and of the opponent, who won the third match only
C13_Witness ==
    /\ statsOut.done
    /\ Outcomes(input, 1) = <<TRUE, TRUE, FALSE, TRUE, TRUE, TRUE>>
    /\ statsOut.value[1].longestStreak = 3
    /\ statsOut.value[2].longestStreak = 1
    /\ statsOut.value[2].currentStreak = 0


\* player p's matches among ms that were played inside the season's window
SeasonOwn(ms, p, season) ==
    {i \in 1..Len(ms) :
        /\ p \in {ms[i].playerOneId, ms[i].playerTwoId}
        /\ season.startDate <= ms[i].playedAt
        /\ ms[i].playedAt <= season.endDate}

SeasonOwnWins(ms, p, season) == {i \in SeasonOwn(ms, p, season) : ms[i].winnerId = p}

HasBadge(stats, badge) == \E i \in 1..Len(stats.badges) : stats.badges[i] = badge

\* C14: each badge is awarded exactly when its threshold holds, the season
\* badges counting only the player's matches inside the current season window:
\* In form iff currentStreak >= 3, Perfect month iff season matches >= 3 and no
\* season loss, Dominance iff season matches >= 5 and season wins / season
\* matches >= 0.75, Marathon player iff season matches >= 10, Win machine iff
\* longestStreak >= 5; 4 season matches with 1 loss give neither Dominance nor
\* Perfect month.
C14_Badges ==
    statsOut.done =>
        \A p \in DOMAIN statsOut.value :
            LET stats == statsOut.value[p]
                o == Outcomes(input, p)
                n == Cardinality(SeasonOwn(input, p, seasons[1]))
                w == Cardinality(SeasonOwnWins(input, p, seasons[1]))
            IN  /\ HasBadge(stats, "In vorm") <=> TrailingRun(o) >= 3
                /\ HasBadge(stats, "Perfecte maand") <=> (n >= 3 /\ n - w = 0)
                /\ HasBadge(stats, "Dominantie") <=> (n >= 5 /\ 4 * w >= 3 * n)
                /\ HasBadge(stats, "Marathonspeler") <=> n >= 10
                /\ HasBadge(stats, "Winmachine") <=> LongestRun(o) >= 5
                /\ (n = 4 /\ w = 3) =>
                      /\ ~HasBadge(stats, "Dominantie")
                      /\ ~HasBadge(stats, "Perfecte maand")

\* player 1 played ten matches in the current season and lost two of them,
\* neither of them among the last five: every badge but Perfect month
C14_Witness ==
    /\ statsOut.done
    /\ Cardinality(SeasonOwn(input, 1, seasons[1])) = 10
    /\ Cardinality(SeasonOwnWins(input, 1, seasons[1])) = 8
    /\ statsOut.value[1].badges = <<"In vorm", "Dominantie", "Marathonspeler", "Winmachine">>
    /\ statsOut.value[2].badges = <<"Marathonspeler">>

LostAfter(ms, p, season) ==
    \E i \in 1..Len(ms) :
        /\ p \in {ms[i].playerOneId, ms[i].playerTwoId}
        /\ ms[i].winnerId # p
        /\ ms[i].playedAt > season.endDate

C16_NoMatches ==
    statsOut.done =>
        \A p \in DOMAIN statsOut.value :
            (\A i \in 1..Len(input) : p \notin {input[i].playerOneId, input[i].playerTwoId})
                => LET stats == statsOut.value[p] IN
                   /\ stats.wins = 0 /\ stats.losses = 0 /\ stats.matches = 0
                   /\ stats.pointsFor = 0 /\ stats.pointsAgainst = 0
                   /\ stats.winRate.num = 0 /\ stats.winRate.den # 0
                   /\ stats.pointDifferential = 0
                   /\ stats.currentStreak = 0 /\ stats.longestStreak = 0
                   /\ stats.badges = <<>>
                   /\ stats.justReachedStreakFive = FALSE

\* the statistics of a league in which players 1 and 2 have played and
\* players 3 and 4 have not
C16_Witness ==
    /\ statsOut.done
    /\ input # <<>>
    /\ statsOut.value[1].matches > 0
    /\ statsOut.value[3].matches = 0
    /\ statsOut.value[4].matches = 0


-----------------------------------------------------------------------------
(* Properties of the standings of the league's seasons *)

\* the players of the matches of season sid
SeasonPlayers(ms, sid) == PlayersIn(SeasonMatches(ms, sid))

\* the standings of every season hold one entry for each player of its
\* matches and none for anyone else, and every entry has played
C17_EntriesArePlayers ==
    \A sid \in 1..Len(seasons) :
        LET standings == SeasonStandings(matches, sid) IN
        /\ {standings[i].player : i \in 1..Len(standings)} = SeasonPlayers(matches, sid)
        /\ Len(standings) = Cardinality(SeasonPlayers(matches, sid))
        /\ \A i \in 1..Len(standings) : standings[i].matches >= 1
        /\ SeasonMatches(matches, sid) = <<>> => standings = <<>>

\* champion determination writes nothing for a season without matches
C17_NothingWrittenWithoutMatches ==
    \A sid \in updated' : SeasonMatches(matches', sid) # <<>>

\* C17: calculateSeasonStandings returns exactly one entry for each player who
\* appears in at least one of the given matches and no entry for anyone else,
\* every entry has matches >= 1, and for an empty match list it returns an
\* empty list, in which case champion determination writes nothing for that
\* season.
C17_StandingsEntries ==
    []C17_EntriesArePlayers /\ [][C17_NothingWrittenWithoutMatches]_vars

\* champion determination has run over an ended season whose only match was
\* taken away, and has written nothing for it; the match is in another
\* season, whose standings are its two players
C17_Witness ==
    /\ lastOp \in DeterminationRoutes
    /\ \E sid, other \in 1..Len(seasons) :
          /\ seasons[sid].endDate < now
          /\ SeasonMatches(matches, sid) = <<>>
          /\ seasons[sid].championId = 0
          /\ Len(SeasonStandings(matches, other)) = 2


-----------------------------------------------------------------------------
(* The career-wide leaderboard on its own *)

BoardInit ==
    /\ input \in MixedInputs
    /\ standingsOut = NoResult
    /\ deltasOut = NoResult
    /\ statsOut = NoResult
    /\ StatsDb

\* getLeaderboardSnapshot, which looks the current season up or creates it
CallLeaderboard ==
    LET season == getOrCreateSeasonForDate(seasons, now) IN
    /\ ~statsOut.done
    /\ seasons' = season.seasons
    /\ statsOut' = [done |-> TRUE,
                    value |-> getLeaderboardSnapshot(input, season.seasons, season.id)]
    /\ UNCHANGED <<now, matches, nextMatchId, lastOp, updated, returned, pending,
                   requestVars, accountVars>>
    /\ UNCHANGED <<input, standingsOut, deltasOut>>

SpecBoard == BoardInit /\ [][CallLeaderboard]_vars

\* win rates compared as ratios
RateGreater(a, b) == a.winRate.num * b.winRate.den > b.winRate.num * a.winRate.den
RateEqual(a, b) == a.winRate.num * b.winRate.den = b.winRate.num * a.winRate.den

\* C19: the leaderboard of getLeaderboardSnapshot is ordered by win rate
\* descending and, among players with equal win rate, by point differential
\* descending: for adjacent entries a before b, a.winRate > b.winRate, or the
\* win rates are equal and a.pointDifferential >= b.pointDifferential.
C19_LeaderboardOrdered ==
    statsOut.done =>
        \A i \in 1..(Len(statsOut.value) - 1) :
            LET a == statsOut.value[i]
                b == statsOut.value[i + 1]
            IN  \/ RateGreater(a, b)
                \/ RateEqual(a, b) /\ a.pointDifferential >= b.pointDifferential

\* a leaderboard of four players where two have won their only match and two
\* have lost theirs, the one with the larger margin first although fetched
\* later
C19_Witness ==
    /\ statsOut.done
    /\ Len(statsOut.value) = 4
    /\ RateEqual(statsOut.value[1], statsOut.value[2])
    /\ statsOut.value[1].pointDifferential > statsOut.value[2].pointDifferential
    /\ statsOut.value[1].player > statsOut.value[2].player
    /\ RateGreater(statsOut.value[2], statsOut.value[3])


-----------------------------------------------------------------------------
(* One step of the rating engine on its own: one match between two players *)
(* at any two current ratings                                              *)

RatingSpread == 800  \* how far a current rating lies from the other's, or from 1000

\* the ratings player 1 holds when the match is processed
StepBases == {BASE_RATING - RatingSpread, BASE_RATING, BASE_RATING + RatingSpread}

\* the statsMap and the ratingMap hold the two current ratings; the match is
\* won by either side
StepInit ==
    /\ \E sc \in LeagueScores : input = <<MatchRow(1, <<1, 2>>, sc, 1, 1)>>
    /\ \E Ra \in StepBases : \E Rb \in (Ra - RatingSpread)..(Ra + RatingSpread) :
          /\ standingsOut =
                [done |-> FALSE,
                 value |-> <<[NewEntry(1) EXCEPT !.rating = Ra],
                             [NewEntry(2) EXCEPT !.rating = Rb]>>]
          /\ deltasOut = [done |-> FALSE, value |-> (1 :> Ra) @@ (2 :> Rb)]
    /\ statsOut = NoResult
    /\ DbIdle

\* the body of the per-match loop of calculateSeasonStandings
StepStandings ==
    /\ ~standingsOut.done
    /\ standingsOut' = [done |-> TRUE,
                        value |-> ProcessMatch(standingsOut.value, input[1])]
    /\ UNCHANGED <<input, deltasOut, statsOut>>
    /\ UNCHANGED <<dbVars, accountVars>>

\* the body of the per-match loop of computeEloDeltas
StepDeltas ==
    /\ ~deltasOut.done
    /\ deltasOut' = [done |-> TRUE,
                     value |-> DeltaRun(input, deltasOut.value, <<>>)]
    /\ UNCHANGED <<input, standingsOut, statsOut>>
    /\ UNCHANGED <<dbVars, accountVars>>

StepNext == StepStandings \/ StepDeltas

SpecStep == StepInit /\ [][StepNext]_vars

\* the two deltas computeEloDeltas reports for the match are at most 1 apart
\* from cancelling
C20_DeltasNearZeroSum ==
    deltasOut.done =>
        LET d == deltasOut.value[input[1].id]
        IN  d.playerOneDelta + d.playerTwoDelta \in -1..1

\* the two rating changes calculateSeasonStandings applies for the match are
\* at most 1 apart from cancelling
C20_RatingsNearZeroSum ==
    (~standingsOut.done /\ standingsOut'.done) =>
        (standingsOut'.value[1].rating - standingsOut.value[1].rating)
          + (standingsOut'.value[2].rating - standingsOut.value[2].rating) \in -1..1

\* C20: for every match processed by the rating engine, at any pair of current
\* integer ratings, the sum playerOneDelta + playerTwoDelta of the two
\* independently rounded deltas is -1, 0 or 1.
C20_DeltaSumBounded == []C20_DeltasNearZeroSum /\ [][C20_RatingsNearZeroSum]_vars

\* the lower rated player, some 400 points behind, has won: both functions
\* have moved the two ratings by more than 28 points
C20_Witness ==
    /\ deltasOut.done
    /\ standingsOut.done
    /\ deltasOut.value[1].playerOneDelta > 28
    /\ deltasOut.value[1].playerTwoDelta < -28
    /\ standingsOut.value[1].rating = BASE_RATING + deltasOut.value[1].playerOneDelta
    /\ standingsOut.value[2].rating > BASE_RATING + 400

-----------------------------------------------------------------------------
(* GET /api/matches: the season correction *)

\* Match rows stored with seasonId NULL: the column is nullable and the rows
\* carry no season until a route assigns one
LegacyTables ==
    {<<>>}
        \cup {<<MatchRow(1, <<1, 2>>, <<11, 5>>, t, 0)>> : t \in Times}
        \cup {<<MatchRow(1, <<1, 2>>, <<11, 5>>, t, 0),
                MatchRow(2, <<2, 3>>, <<5, 11>>, u, 0)>> : t \in Times, u \in Times}

\* the corrections of GET /api/matches over the rows in the order of the query.
\* The callbacks of Promise.all run overlapped: the findFirst of a callback sees
\* the Season table either as it was when the route started (atStart) or with
\* the seasons the callbacks before it created (fresh[id] tells which).
RECURSIVE CorrectSeasons(_, _, _, _, _)
CorrectSeasons(order, atStart, fresh, acc, i) ==
    IF i > Len(order) THEN acc
    ELSE
        LET match == order[i] IN
        IF match.seasonId # 0
        THEN CorrectSeasons(order, atStart, fresh, acc, i + 1)
        ELSE
            LET seen == IF fresh[match.id] THEN acc.seasons ELSE atStart
                existing == FindSeasonFor(seen, match.playedAt)
                tbl == IF existing # 0 THEN acc.seasons
                       ELSE CreateSeason(acc.seasons, match.playedAt)
                sid == IF existing # 0 THEN existing ELSE Len(acc.seasons) + 1
            IN  CorrectSeasons(order, atStart, fresh,
                    [seasons |-> tbl,
                     assigned |-> acc.assigned \cup {<<match.id, sid>>},
                     calls |-> acc.calls \cup {<<match.playedAt, sid>>}],
                    i + 1)

\* the Match table after the prisma.match.update calls of the correction
WithSeasons(ms, assigned) ==
    [i \in 1..Len(ms) |->
        IF \E a \in assigned : a[1] = ms[i].id
        THEN [ms[i] EXCEPT !.seasonId =
                 (CHOOSE a \in assigned : a[1] = ms[i].id)[2]]
        ELSE ms[i]]

\* GET /api/matches
GetMatches ==
    \E fresh \in [{m.id : m \in {matches[i] : i \in 1..Len(matches)}} -> BOOLEAN] :
        LET corrected ==
                CorrectSeasons(OrderByPlayedAtDesc(matches), seasons, fresh,
                               [seasons |-> seasons, assigned |-> {}, calls |-> {}], 1)
        IN  /\ seasons' = corrected.seasons
            /\ matches' = WithSeasons(matches, corrected.assigned)
            /\ returned' = returned \cup corrected.calls
            /\ lastOp' = "GetMatches"
            /\ updated' = {}
            /\ UNCHANGED <<now, nextMatchId, pending>>
            /\ UNCHANGED <<requestVars, engineVars, accountVars>>

CorrectionInit ==
    /\ now = 0
    /\ seasons = <<>>
    /\ matches \in LegacyTables
    /\ nextMatchId = Len(matches) + 1
    /\ lastOp = "none"
    /\ updated = {}
    /\ returned = {}
    /\ pending = [r \in 1..NumRequests |-> -1]
    /\ request = <<>>
    /\ response = 0
    /\ AccountsIdle
    /\ EngineIdle

SpecCorrection ==
    CorrectionInit /\ [][\/ PostMatch
                         \/ PatchMatch
                         \/ GetMatches]_vars

\* C21: every match that has a seasonId points to a season row whose window
\* [startDate, endDate] contains the match's playedAt, after any sequence of
\* match creations, updates (a playedAt moved to another month included) and
\* season corrections of GET /api/matches
C21_SeasonContainsPlayedAt ==
    \A i \in 1..Len(matches) :
        matches[i].seasonId # 0 =>
            /\ matches[i].seasonId \in 1..Len(seasons)
            /\ seasons[matches[i].seasonId].startDate <= matches[i].playedAt
            /\ matches[i].playedAt <= seasons[matches[i].seasonId].endDate

\* GET /api/matches has just given a season to a row that had none, next to a
\* row in another month's season
C21_Witness ==
    /\ lastOp = "GetMatches"
    /\ Len(matches) = 2
    /\ <<matches[1].playedAt, matches[1].seasonId>> \in returned
    /\ matches[1].seasonId # 0 /\ matches[2].seasonId # 0
    /\ MonthOf(matches[1].playedAt) # MonthOf(matches[2].playedAt)
    /\ matches[1].seasonId # matches[2].seasonId

-----------------------------------------------------------------------------
(* DELETE /api/players/:id *)

\* the ids DELETE /api/players/:id is asked for: the league's players and the
\* first id the Player table has not handed out
DeleteIds == LeaguePlayers \cup {4}

\* bodies of POST /api/matches between the league's players, playedAt left out
LeagueBodies ==
    {MatchBody(p1, p2, sc[1], sc[2], Absent) :
        p1 \in LeaguePlayers, p2 \in LeaguePlayers, sc \in LeagueScores}

\* bodies of PATCH /api/matches/:id that put other players of the league in
LeaguePatchBodies ==
    {MatchBody(p1, p2, Absent, Absent, Absent) :
        p1 \in LeaguePlayers \cup {Absent}, p2 \in LeaguePlayers \cup {Absent}}

\* prisma.match.deleteMany without its where clause
DeleteManyAll(ms, playerId) == <<>>

\* prisma.match.deleteMany({where: {OR: [{playerOneId}, {playerTwoId}]}}): the
\* rows that stay
DeleteMany(ms, playerId) ==
    SelectSeq(ms, LAMBDA m : ~(m.playerOneId = playerId \/ m.playerTwoId = playerId))

\* Season_championId_fkey ON DELETE SET NULL
ChampionSetNull(tbl, playerId) ==
    [i \in 1..Len(tbl) |->
        IF tbl[i].championId = playerId THEN [tbl[i] EXCEPT !.championId = 0]
        ELSE tbl[i]]

\* the Match_*_fkey constraints are ON DELETE RESTRICT: the player's row cannot
\* go while a row of the given table still points to it
Restricted(ms, playerId) ==
    \E i \in 1..Len(ms) :
        \/ ms[i].playerOneId = playerId
        \/ ms[i].playerTwoId = playerId
        \/ ms[i].winnerId = playerId

\* the status DELETE /api/players/:id answers with: 500 (error middleware) when
\* the transaction fails on a constraint and is rolled back
DeletePlayerStatus(playerId) ==
    IF playerId \notin players THEN 404
    ELSE IF Restricted(DeleteMany(matches, playerId), playerId) THEN 500
    ELSE 204

\* DELETE /api/players/:id: the two deletions are one transaction
DeletePlayer ==
    \E playerId \in DeleteIds :
        LET status == DeletePlayerStatus(playerId)
        IN  /\ request' = [route |-> "DELETE /api/players", id |-> playerId,
                           body |-> <<>>]
            /\ response' = status
            /\ IF status = 204
               THEN /\ matches' = DeleteMany(matches, playerId)
                    /\ players' = players \ {playerId}
                    /\ seasons' = ChampionSetNull(seasons, playerId)
               ELSE UNCHANGED <<matches, players, seasons>>
            /\ lastOp' = "DeletePlayer"
            /\ updated' = {}
            /\ UNCHANGED <<now, nextMatchId, returned, pending>>
            /\ UNCHANGED <<nextPlayerId, friendships, nextFriendshipId, groups,
                           members, invites, nextInviteId>>
            /\ UNCHANGED engineVars

\* POST /api/matches between players of the league
PostLeagueMatch == \E body \in LeagueBodies : PostMatchOf(body)

\* PATCH /api/matches/:id between players of the league
PatchLeagueMatch ==
    \E id \in 1..nextMatchId, body \in LeaguePatchBodies : PatchMatchOf(id, body)

SpecPlayers ==
    Init /\ [][\/ PostLeagueMatch
               \/ PatchLeagueMatch
               \/ DeletePlayer]_vars

References(m, playerId) ==
    playerId \in {m.playerOneId, m.playerTwoId, m.winnerId}

\* a successful DELETE /api/players/:id leaves exactly the rows that did not
\* reference the player, in their order, and the player's row is gone
C22_DeleteStep ==
    (lastOp' = "DeletePlayer" /\ response' = 204) =>
        /\ request'.id \in players /\ request'.id \notin players'
        /\ players' = players \ {request'.id}
        /\ \A i \in 1..Len(matches') : ~References(matches'[i], request'.id)
        /\ matches' = SelectSeq(matches, LAMBDA m : ~References(m, request'.id))

\* C22: after a successful DELETE /api/players/:id no stored match references
\* the deleted player as playerOne, playerTwo or winner and the other matches
\* are unchanged; in no state is a player gone while a match that references
\* the player remains
C22_PlayerDeletion ==
    /\ [](\A i \in 1..Len(matches) :
            \A id \in DeleteIds :
                References(matches[i], id) => id \in players)
    /\ [][C22_DeleteStep]_vars

\* player 1 was deleted together with a match of player 1; the match between
\* players 2 and 3 is still stored
C22_Witness ==
    /\ lastOp = "DeletePlayer" /\ response = 204 /\ request.id = 1
    /\ nextMatchId = 3
    /\ Len(matches) = 1
    /\ matches[1].id = 2
    /\ matches[1].playerOneId = 2 /\ matches[1].playerTwoId = 3
    /\ matches[1].playerOnePoints = 5 /\ matches[1].playerTwoPoints = 11
    /\ players = {2, 3}

-----------------------------------------------------------------------------
(* The authenticated server: tokens and friendships *)

MaxFriendships == 1   \* Friendship rows ever created

\* the User table: accounts registered through POST /auth/register
Users == 1..3
\* a user id no row of the User table has
UnknownUser == 4
UserIds == Users \cup {UnknownUser}

\* what a request carries as Authorization header: nothing, a Bearer token
\* whose signature or expiry fails, or a valid token of a user (its sub)
NoToken == 0
BadToken == -1
Tokens == {NoToken, BadToken} \cup Users

\* authenticate: the id put in req.user, 0 when the request is answered 401
authenticate(token) == IF token \in Users THEN token ELSE 0

\* findFriendshipBetween: the rows between the two users, either direction
findFriendshipBetween(userId, otherUserId) ==
    {f \in friendships :
        \/ f.requesterId = userId /\ f.addresseeId = otherUserId
        \/ f.requesterId = otherUserId /\ f.addresseeId = userId}

\* the row a findFirst hands out of the rows that match
FirstRow(rows) == CHOOSE f \in rows : \A g \in rows : f.id <= g.id

\* the status POST /api/friends/request answers with
FriendRequestStatus(currentUserId, userId) ==
    LET existing == findFriendshipBetween(currentUserId, userId) IN
    IF currentUserId = 0 THEN 401
    ELSE IF userId \notin Users THEN 404
    ELSE IF userId = currentUserId THEN 400
    ELSE IF existing # {}
         THEN IF FirstRow(existing).status = "BLOCKED" THEN 403
              ELSE IF FirstRow(existing).status = "ACCEPTED" THEN 409
              ELSE IF FirstRow(existing).status = "PENDING" THEN 409
              ELSE 200
    ELSE 201

\* POST /api/friends/request
FriendRequest ==
    \E token \in Tokens, userId \in UserIds :
        LET currentUserId == authenticate(token)
            status == FriendRequestStatus(currentUserId, userId)
            existing == FirstRow(findFriendshipBetween(currentUserId, userId))
        IN  /\ request' = [route |-> "POST /api/friends/request", token |-> token,
                           id |-> 0, body |-> [userId |-> userId]]
            /\ response' = status
            /\ IF status = 200
               THEN /\ friendships' = (friendships \ {existing}) \cup
                            {[id |-> existing.id, requesterId |-> currentUserId,
                              addresseeId |-> userId, status |-> "PENDING"]}
                    /\ UNCHANGED nextFriendshipId
               ELSE IF status = 201
               THEN /\ nextFriendshipId <= MaxFriendships
                    /\ friendships' = friendships \cup
                            {[id |-> nextFriendshipId, requesterId |-> currentUserId,
                              addresseeId |-> userId, status |-> "PENDING"]}
                    /\ nextFriendshipId' = nextFriendshipId + 1
               ELSE UNCHANGED <<friendships, nextFriendshipId>>
            /\ lastOp' = "FriendRequest"
            /\ UNCHANGED <<players, nextPlayerId, groups, members, invites, nextInviteId>>
            /\ UNCHANGED <<now, seasons, matches, nextMatchId, updated, returned, pending>>
            /\ UNCHANGED engineVars

\* the actions a body of a respond route may name, and one the routes do not know
RespondActions == {"accept", "decline", "cancel", "block"}

\* the status POST /api/friends/respond answers with
FriendRespondStatus(currentUserId, id, action) ==
    LET found == {f \in friendships : f.id = id} IN
    IF currentUserId = 0 THEN 401
    ELSE IF action \notin {"accept", "decline", "cancel"} THEN 400
    ELSE IF found = {} THEN 404
    ELSE LET friendship == FirstRow(found) IN
         IF action = "cancel"
         THEN IF friendship.requesterId # currentUserId THEN 403 ELSE 204
         ELSE IF friendship.addresseeId # currentUserId THEN 403
         ELSE IF action = "accept" /\ friendship.status = "ACCEPTED" THEN 409
         ELSE 200

\* POST /api/friends/respond
FriendRespond ==
    \E token \in Tokens, id \in 1..MaxFriendships, action \in RespondActions :
        LET currentUserId == authenticate(token)
            status == FriendRespondStatus(currentUserId, id, action)
            friendship == FirstRow({f \in friendships : f.id = id})
        IN  /\ request' = [route |-> "POST /api/friends/respond", token |-> token,
                           id |-> id, body |-> [action |-> action]]
            /\ response' = status
            /\ IF status = 204
               THEN friendships' = friendships \ {friendship}
               ELSE IF status = 200
               THEN friendships' = (friendships \ {friendship}) \cup
                        {[friendship EXCEPT !.status =
                             IF action = "accept" THEN "ACCEPTED" ELSE "DECLINED"]}
               ELSE UNCHANGED friendships
            /\ lastOp' = "FriendRespond"
            /\ UNCHANGED <<players, nextPlayerId, nextFriendshipId, groups, members,
                           invites, nextInviteId>>
            /\ UNCHANGED <<now, seasons, matches, nextMatchId, updated, returned, pending>>
            /\ UNCHANGED engineVars

SpecFriends ==
    Init /\ [][\/ FriendRequest
               \/ FriendRespond]_vars

\* the row with the id before the step, in a set
RowBefore(id) == {f \in friendships : f.id = id}

IsRespond(action) ==
    /\ request'.route = "POST /api/friends/respond"
    /\ request'.body.action = action
    /\ response' \in {200, 204}

\* a row is ACCEPTED after the step and was not before: the step is an accept
\* by the addressee of a PENDING row
C29_AcceptedOnlyFromPending ==
    \A f \in friendships' :
        (f.status = "ACCEPTED" /\ f \notin friendships) =>
            /\ IsRespond("accept")
            /\ \E g \in RowBefore(f.id) :
                  /\ g.status = "PENDING"
                  /\ request'.token = g.addresseeId
                  /\ request'.token # g.requesterId

\* a row that goes away was cancelled by its requester
C29_OnlyRequesterCancels ==
    \A g \in friendships :
        ~(\E f \in friendships' : f.id = g.id)
            => IsRespond("cancel") /\ request'.token = g.requesterId

\* an accept or decline leaves a DECLINED or ACCEPTED row as it is
C29_SettledRowsKept ==
    \A g \in friendships :
        (/\ g.status \in {"DECLINED", "ACCEPTED"}
         /\ request'.route = "POST /api/friends/respond"
         /\ request'.id = g.id
         /\ request'.body.action \in {"accept", "decline"})
            => g \in friendships'

\* C29: a friendship becomes ACCEPTED only through POST /api/friends/respond
\* with action accept by its addressee while it is PENDING (never by the
\* requester), only the requester can cancel, and an accept or decline does not
\* change a friendship that is DECLINED or ACCEPTED
C29_FriendshipTransitions ==
    [][/\ C29_AcceptedOnlyFromPending
       /\ C29_OnlyRequesterCancels
       /\ C29_SettledRowsKept]_vars

-----------------------------------------------------------------------------
(* The authenticated server: groups and invitations *)

MaxGroups == 1    \* Group rows ever created
MaxInvites == 2   \* GroupInvite rows ever created

\* names a body of POST /api/groups carries, as the characters left after trim
GroupNames == {<<"p", "p">>, <<"c", "l", "u", "b">>}

\* getGroupMembership: the membership of the user in the group, in a set
getGroupMembership(groupId, userId) ==
    {m \in members : m.groupId = groupId /\ m.userId = userId}

\* canManageGroup: the user has a membership with role OWNER or ADMIN
canManageGroup(groupId, userId) ==
    \E m \in getGroupMembership(groupId, userId) : m.role \in {"OWNER", "ADMIN"}

\* areFriends with the status condition of the query left out
areFriendsAnyStatus(currentUserId, userId) ==
    findFriendshipBetween(currentUserId, userId) # {}

\* areFriends: a Friendship row between the two with status ACCEPTED
areFriends(currentUserId, userId) ==
    \E f \in findFriendshipBetween(currentUserId, userId) : f.status = "ACCEPTED"

\* prisma.groupInvite.findUnique on (groupId, inviteeId), in a set
ExistingInvite(groupId, inviteeId) ==
    {i \in invites : i.groupId = groupId /\ i.inviteeId = inviteeId}

\* POST /api/groups
CreateGroup ==
    \E token \in Tokens, name \in GroupNames :
        LET currentUserId == authenticate(token)
            status == IF currentUserId = 0 THEN 401
                      ELSE IF Len(name) < 3 THEN 400 ELSE 201
        IN  /\ request' = [route |-> "POST /api/groups", token |-> token,
                           id |-> 0, body |-> [name |-> name]]
            /\ response' = status
            /\ IF status = 201
               THEN /\ Len(groups) < MaxGroups
                    /\ groups' = Append(groups, [id |-> Len(groups) + 1,
                                                 ownerId |-> currentUserId])
                    /\ members' = members \cup
                            {[groupId |-> Len(groups) + 1, userId |-> currentUserId,
                              role |-> "OWNER"]}
               ELSE UNCHANGED <<groups, members>>
            /\ lastOp' = "CreateGroup"
            /\ UNCHANGED <<players, nextPlayerId, friendships, nextFriendshipId,
                           invites, nextInviteId>>
            /\ UNCHANGED <<now, seasons, matches, nextMatchId, updated, returned, pending>>
            /\ UNCHANGED engineVars

\* the status POST /api/groups/:groupId/invite answers with
GroupInviteStatus(currentUserId, groupId, userId) ==
    IF currentUserId = 0 THEN 401
    ELSE IF ~canManageGroup(groupId, currentUserId) THEN 403
    ELSE IF groupId \notin 1..Len(groups) THEN 404
    ELSE IF userId \notin Users THEN 404
    ELSE IF userId = currentUserId THEN 400
    ELSE IF getGroupMembership(groupId, userId) # {} THEN 409
    ELSE IF ~areFriends(currentUserId, userId) THEN 403
    ELSE IF \E i \in ExistingInvite(groupId, userId) : i.status = "PENDING" THEN 409
    ELSE IF \E i \in ExistingInvite(groupId, userId) : i.status = "ACCEPTED" THEN 409
    ELSE IF ExistingInvite(groupId, userId) # {} THEN 200
    ELSE 201

\* POST /api/groups/:groupId/invite
GroupInvite ==
    \E token \in Tokens, groupId \in 1..MaxGroups, userId \in UserIds :
        LET currentUserId == authenticate(token)
            status == GroupInviteStatus(currentUserId, groupId, userId)
            existingInvite == ExistingInvite(groupId, userId)
        IN  /\ request' = [route |-> "POST /api/groups/:groupId/invite",
                           token |-> token, id |-> groupId,
                           body |-> [userId |-> userId]]
            /\ response' = status
            /\ IF status = 200
               THEN /\ invites' = (invites \ existingInvite) \cup
                            {[i EXCEPT !.inviterId = currentUserId,
                                       !.status = "PENDING"] : i \in existingInvite}
                    /\ UNCHANGED nextInviteId
               ELSE IF status = 201
               THEN /\ nextInviteId <= MaxInvites
                    /\ invites' = invites \cup
                            {[id |-> nextInviteId, groupId |-> groupId,
                              inviterId |-> currentUserId, inviteeId |-> userId,
                              status |-> "PENDING"]}
                    /\ nextInviteId' = nextInviteId + 1
               ELSE UNCHANGED <<invites, nextInviteId>>
            /\ lastOp' = "GroupInvite"
            /\ UNCHANGED <<players, nextPlayerId, friendships, nextFriendshipId,
                           groups, members>>
            /\ UNCHANGED <<now, seasons, matches, nextMatchId, updated, returned, pending>>
            /\ UNCHANGED engineVars

\* the status POST /api/groups/invites/:inviteId/respond answers with
InviteRespondStatus(currentUserId, inviteId, action) ==
    LET found == {i \in invites : i.id = inviteId} IN
    IF currentUserId = 0 THEN 401
    ELSE IF action \notin {"accept", "decline", "cancel"} THEN 400
    ELSE IF found = {} THEN 404
    ELSE LET invite == FirstRow(found) IN
         IF action = "cancel"
         THEN IF invite.inviterId # currentUserId THEN 403
              ELSE IF invite.status # "PENDING" THEN 409
              ELSE 204
         ELSE IF invite.inviteeId # currentUserId THEN 403
         ELSE IF action = "accept"
         THEN IF invite.status = "ACCEPTED" THEN 409
              ELSE IF invite.status = "DECLINED" THEN 409
              ELSE 200
         ELSE IF invite.status # "PENDING" THEN 409
         ELSE 200

\* groupMember.upsert that writes role MEMBER over every membership of the group
UpsertMemberAll(groupId, userId) ==
    {[m EXCEPT !.role = IF m.groupId = groupId THEN "MEMBER" ELSE m.role] :
        m \in members}
        \cup {[groupId |-> groupId, userId |-> userId, role |-> "MEMBER"]}

\* transaction.groupMember.upsert: the GroupMember table afterwards
UpsertMember(groupId, userId) ==
    IF getGroupMembership(groupId, userId) # {}
    THEN (members \ getGroupMembership(groupId, userId)) \cup
            {[m EXCEPT !.role = "MEMBER"] : m \in getGroupMembership(groupId, userId)}
    ELSE members \cup {[groupId |-> groupId, userId |-> userId, role |-> "MEMBER"]}

\* POST /api/groups/invites/:inviteId/respond
InviteRespond ==
    \E token \in Tokens, inviteId \in 1..MaxInvites, action \in RespondActions :
        LET currentUserId == authenticate(token)
            status == InviteRespondStatus(currentUserId, inviteId, action)
            invite == FirstRow({i \in invites : i.id = inviteId})
        IN  /\ request' = [route |-> "POST /api/groups/invites/:inviteId/respond",
                           token |-> token, id |-> inviteId,
                           body |-> [action |-> action]]
            /\ response' = status
            /\ IF status = 204
               THEN /\ invites' = invites \ {invite}
                    /\ UNCHANGED members
               ELSE IF status = 200 /\ action = "accept"
               THEN /\ invites' = (invites \ {invite}) \cup
                            {[invite EXCEPT !.status = "ACCEPTED"]}
                    /\ members' = UpsertMember(invite.groupId, currentUserId)
               ELSE IF status = 200
               THEN /\ invites' = (invites \ {invite}) \cup
                            {[invite EXCEPT !.status = "DECLINED"]}
                    /\ UNCHANGED members
               ELSE UNCHANGED <<invites, members>>
            /\ lastOp' = "InviteRespond"
            /\ UNCHANGED <<players, nextPlayerId, friendships, nextFriendshipId,
                           groups, nextInviteId>>
            /\ UNCHANGED <<now, seasons, matches, nextMatchId, updated, returned, pending>>
            /\ UNCHANGED engineVars

SpecGroups ==
    Init /\ [][\/ FriendRequest
               \/ FriendRespond
               \/ CreateGroup
               \/ GroupInvite
               \/ InviteRespond]_vars


\* the step is a POST /api/groups/:groupId/invite of an authenticated user
InviteAsked ==
    /\ request'.route = "POST /api/groups/:groupId/invite"
    /\ request'.token \in Users

\* before the step the user holds role OWNER or ADMIN in the group
Manages(groupId, userId) ==
    \E m \in members :
        m.groupId = groupId /\ m.userId = userId /\ m.role \in {"OWNER", "ADMIN"}

\* before the step an ACCEPTED friendship exists between the two users
Befriended(a, b) ==
    \E f \in friendships :
        /\ f.status = "ACCEPTED"
        /\ {f.requesterId, f.addresseeId} = {a, b}

\* what an invite step may do to the GroupInvite table: add a PENDING invite of
\* the inviter to the invitee, or set a DECLINED one of the invitee to PENDING
InviteWritten(groupId, inviter, invitee) ==
    \/ \E i \in invites' \ invites :
          /\ invites' = invites \cup {i}
          /\ ~(\E j \in invites : j.id = i.id)
          /\ i.groupId = groupId /\ i.inviterId = inviter /\ i.inviteeId = invitee
          /\ i.status = "PENDING"
    \/ \E j \in invites :
          /\ j.status = "DECLINED" /\ j.groupId = groupId /\ j.inviteeId = invitee
          /\ invites' = (invites \ {j}) \cup
                {[j EXCEPT !.inviterId = inviter, !.status = "PENDING"]}

C24_StepAsClaimed ==
    InviteAsked =>
        LET allowed == /\ Manages(request'.id, request'.token)
                       /\ Befriended(request'.token, request'.body.userId)
        IN  /\ invites' # invites => allowed
            /\ ~allowed => response' = 403 /\ invites' = invites

C24_Step ==
    InviteAsked =>
        LET groupId == request'.id
            inviter == request'.token
            invitee == request'.body.userId
            allowed == Manages(groupId, inviter) /\ Befriended(inviter, invitee)
        IN  /\ invites' # invites =>
                allowed /\ InviteWritten(groupId, inviter, invitee)
            /\ ~allowed => invites' = invites
            /\ ~Manages(groupId, inviter) => response' = 403
            /\ (/\ Manages(groupId, inviter)
                /\ invitee \in Users \ {inviter}
                /\ ~(\E m \in members : m.groupId = groupId /\ m.userId = invitee)
                /\ ~Befriended(inviter, invitee)) => response' = 403

JoinedByInvite(m) ==
    \E i \in invites :
        i.groupId = m.groupId /\ i.inviteeId = m.userId /\ i.status = "ACCEPTED"

C30_Memberships ==
    /\ \A g \in 1..Len(groups) :
          /\ \E m \in members :
                m.groupId = g /\ m.userId = groups[g].ownerId /\ m.role = "OWNER"
          /\ \A m \in members :
                (m.groupId = g /\ m.role = "OWNER") => m.userId = groups[g].ownerId
    /\ \A m, n \in members : (m.groupId = n.groupId /\ m.userId = n.userId) => m = n
    /\ \A m \in members :
          /\ m.groupId \in 1..Len(groups)
          /\ m.userId # groups[m.groupId].ownerId => JoinedByInvite(m)

C30_Step ==
    /\ \A m \in members : m \in members'
    /\ \A m \in members' \ members :
          \/ /\ request'.route = "POST /api/groups" /\ response' = 201
             /\ m.role = "OWNER" /\ m.userId = request'.token
             /\ m.groupId = Len(groups')
          \/ /\ request'.route = "POST /api/groups/invites/:inviteId/respond"
             /\ request'.body.action = "accept" /\ response' = 200
             /\ m.role = "MEMBER" /\ m.userId = request'.token
             /\ \E i \in invites :
                   /\ i.id = request'.id /\ i.status = "PENDING"
                   /\ i.inviteeId = m.userId /\ i.groupId = m.groupId

\* C30: every group has exactly one OWNER membership and it is the ownerId's;
\* every other member has an ACCEPTED invite addressed to them for that group,
\* and joined in the step in which they accepted it while it was PENDING; no
\* step changes the role of an existing membership
C30_GroupMembership == []C30_Memberships /\ [][C30_Step]_vars

\* an invitee has just accepted and is a MEMBER next to the OWNER
C30_Witness ==
    /\ lastOp = "InviteRespond" /\ response = 200 /\ request.body.action = "accept"
    /\ \E m, n \in members :
          /\ m.groupId = n.groupId
          /\ m.role = "OWNER" /\ n.role = "MEMBER"
          /\ n.userId = request.token
          /\ JoinedByInvite(n)

-----------------------------------------------------------------------------
(* The authenticated server: the player and match routes *)

MaxPlayers == 4   \* last id the Player table hands out

\* names a body of POST /api/players carries, as the characters left after
\* trim: no name, or a name no player has yet
PlayerNames == {<<>>, <<"A", "n", "n", "a">>}

\* POST /api/players of the authenticated server: the route has no authenticate
\* handler, the Authorization header is not read
AuthPostPlayer ==
    \E token \in Tokens, name \in PlayerNames :
        LET status == IF Len(name) = 0 THEN 400 ELSE 201
        IN  /\ request' = [route |-> "POST /api/players", token |-> token,
                           id |-> 0, body |-> [name |-> name]]
            /\ response' = status
            /\ IF status = 201
               THEN /\ nextPlayerId <= MaxPlayers
                    /\ players' = players \cup {nextPlayerId}
                    /\ nextPlayerId' = nextPlayerId + 1
                    /\ seasons' = getOrCreateSeasonForDate(seasons, now).seasons
               ELSE UNCHANGED <<players, nextPlayerId, seasons>>
            /\ lastOp' = "PostPlayer"
            /\ updated' = {}
            /\ UNCHANGED <<now, matches, nextMatchId, returned, pending>>
            /\ UNCHANGED <<friendships, nextFriendshipId, groups, members, invites,
                           nextInviteId>>
            /\ UNCHANGED engineVars

\* bodies of POST /api/matches: player 1 against player 1, against player 2 and
\* against the first player POST /api/players creates
AuthBodies == {MatchBody(1, p2, 11, 5, Absent) : p2 \in {1, 2, 4}}

\* POST /api/matches of the authenticated server: the same handler, registered
\* without authenticate
AuthPostMatch ==
    \E token \in Tokens, body \in AuthBodies :
        PostMatchAs("POST /api/matches", <<token>>, body)

SpecAuth ==
    Init /\ [][\/ AuthPostPlayer
               \/ AuthPostMatch
               \/ FriendRequest
               \/ CreateGroup]_vars

\* C23: a request to a mutating route that carries no valid Bearer token is
\* answered 401 and leaves the stored tables as they are
C23_MutationsNeedToken ==
    [][request'.token \notin Users =>
          /\ response' = 401
          /\ UNCHANGED <<players, matches, seasons, friendships, groups, members,
                         invites>>]_vars

-----------------------------------------------------------------------------
(* Matches that reference a player outside the Player table *)

\* the list references a player id that no row of the Player table has
UnknownPlayerIn(ms) ==
    \E i \in 1..Len(ms) :
        ms[i].playerOneId \notin players \/ ms[i].playerTwoId \notin players

\* C25: when a match handed to the rating computation references a player id
\* that is not in the player set, the computation fails: neither function
\* returns a result for that list
C25_UnknownPlayerFails ==
    UnknownPlayerIn(input) => ~standingsOut.done /\ ~deltasOut.done

-----------------------------------------------------------------------------
(* The derivation functions and the lists they are handed *)

\* matches.sort(cmp): the array is sorted in place
SortInPlace(ms) == [matches |-> SortByPlayedAt(ms), sorted |-> SortByPlayedAt(ms)]

\* [...matches].sort(cmp): the array the caller handed over, as it is after the
\* call, and the sorted copy the function works on
SpreadSort(ms) == [matches |-> ms, sorted |-> SortByPlayedAt(ms)]

\* a list of matches in the order a caller hands it over, the current season
\* being the one of StatsSeason
PureInit ==
    /\ \E ms \in MixedInputs : \E f \in Perms(Len(ms)) : input = Permuted(ms, f)
    /\ standingsOut = NoResult
    /\ deltasOut = NoResult
    /\ statsOut = NoResult
    /\ StatsDb

\* calculateSeasonStandings(input); it may be invoked again
PureStandings ==
    /\ standingsOut' = [done |-> TRUE, value |-> calculateSeasonStandings(input)]
    /\ input' = SpreadSort(input).matches
    /\ UNCHANGED <<deltasOut, statsOut>>
    /\ UNCHANGED <<dbVars, accountVars>>

\* computeEloDeltas(input); it may be invoked again
PureDeltas ==
    /\ deltasOut' = [done |-> TRUE, value |-> computeEloDeltas(input)]
    /\ input' = SpreadSort(input).matches
    /\ UNCHANGED <<standingsOut, statsOut>>
    /\ UNCHANGED <<dbVars, accountVars>>

\* buildPlayerStats, and calculatePlayerEnhancements within it, for every
\* player over the relations taken from input; it may be invoked again
PureStats ==
    /\ statsOut' =
          [done |-> TRUE,
           value |-> [p \in 1..Cardinality(Players) |->
                         buildPlayerStats(PlayerWithRelations(p, input),
                                          seasons[1], seasons)]]
    /\ input' = SpreadSort(input).matches
    /\ UNCHANGED <<standingsOut, deltasOut>>
    /\ UNCHANGED <<dbVars, accountVars>>

SpecPure ==
    PureInit /\ [][\/ PureStandings
                   \/ PureDeltas
                   \/ PureStats]_vars

\* a call leaves the list it was handed as it was, and a function invoked
\* again returns what it returned before
C26_CallStep ==
    /\ input' = input
    /\ standingsOut.done => standingsOut' = standingsOut
    /\ deltasOut.done => deltasOut' = deltasOut
    /\ statsOut.done => statsOut' = statsOut

-----------------------------------------------------------------------------
(* Consistency of the statistics over the stored matches *)

\* what GET /api/players derives for player p from the tables
StoredStats(p) ==
    LET season == getOrCreateSeasonForDate(seasons, now) IN
    buildPlayerStats(PlayerWithRelations(p, matches),
                     season.seasons[season.id], season.seasons)

\* the sum of a field over the entries of a standings list
RECURSIVE SumField(_, _)
SumField(standings, field) ==
    IF standings = <<>> THEN 0
    ELSE Head(standings)[field] + SumField(Tail(standings), field)

\* C27: for every player and every match history reached through the match
\* routes the statistics satisfy
\* 0 <= currentStreak <= longestStreak <= wins <= matches and
\* wins + losses = matches; in the standings of every season the wins and the
\* losses each sum to the number of matches and the point differentials to 0
C27_StatsConsistent ==
    /\ \A p \in LeaguePlayers :
          LET stats == StoredStats(p) IN
          /\ 0 <= stats.currentStreak
          /\ stats.currentStreak <= stats.longestStreak
          /\ stats.longestStreak <= stats.wins
          /\ stats.wins <= stats.matches
          /\ stats.losses >= 0
          /\ stats.wins + stats.losses = stats.matches
    /\ \A sid \in 1..Len(seasons) :
          LET standings == SeasonStandings(matches, sid) IN
          /\ SumField(standings, "wins") = Len(SeasonMatches(matches, sid))
          /\ SumField(standings, "losses") = Len(SeasonMatches(matches, sid))
          /\ SumField(standings, "pointDifferential") = 0

\* player 1 won the first match and lost the second of one season: no current
\* streak, longest streak 1, one win in two matches
C27_Witness ==
    /\ Len(matches) = 2
    /\ matches[1].seasonId = matches[2].seasonId
    /\ StoredStats(1).currentStreak = 0
    /\ StoredStats(1).longestStreak = 1
    /\ StoredStats(1).wins = 1
    /\ StoredStats(1).matches = 2
    /\ SumField(SeasonStandings(matches, matches[1].seasonId), "wins") = 2

-----------------------------------------------------------------------------
(* The range of a rating step *)

\* the deltas computeEloDeltas reports for the match: the winner's is in 0..32
\* and the loser's in -32..0
C28_DeltasInRange ==
    deltasOut.done =>
        LET m == input[1]
            d == deltasOut.value[m.id]
            oneWon == (m.winnerId = m.playerOneId)
            winnerDelta == IF oneWon THEN d.playerOneDelta ELSE d.playerTwoDelta
            loserDelta == IF oneWon THEN d.playerTwoDelta ELSE d.playerOneDelta
        IN  winnerDelta \in 0..32 /\ loserDelta \in (-32)..0

\* the rating changes calculateSeasonStandings applies for the match: the
\* winner's rating does not go down, the loser's does not go up, neither moves
\* by more than 32, and both stay integers
C28_RatingsInRange ==
    (~standingsOut.done /\ standingsOut'.done) =>
        LET m == input[1]
            w == IF m.winnerId = m.playerOneId THEN 1 ELSE 2
            l == 3 - w
        IN  /\ standingsOut'.value[w].rating - standingsOut.value[w].rating \in 0..32
            /\ standingsOut'.value[l].rating - standingsOut.value[l].rating
                  \in (-32)..0
            /\ standingsOut'.value[w].rating \in Int
            /\ standingsOut'.value[l].rating \in Int

\* C28: in every match the winner's rating delta is between 0 and 32 and the
\* loser's between -32 and 0, so winning never lowers a rating and losing never
\* raises it, and every rating stays an integer
C28_DeltaRange == []C28_DeltasInRange /\ [][C28_RatingsInRange]_vars

\* player 1, 800 points behind, has won: both functions moved player 1 up by
\* 32 and player 2 down by 32
C28_Witness ==
    /\ standingsOut.done /\ deltasOut.done
    /\ input[1].winnerId = 1
    /\ deltasOut.value[1].playerOneDelta = 32
    /\ deltasOut.value[1].playerTwoDelta = -32
    /\ standingsOut.value[2].rating - standingsOut.value[1].rating = 800 - 64

=============================================================================
